---------------------------- MODULE Spec2Model ----------------------------
(* Verification model of the stock-portfolio accounting ledger:            *)
(* the value objects, the vesting and trade operations, and the            *)
(* PortfolioCalculationService orchestrator.                               *)
(*                                                                         *)
(* Numbers.  The program computes with JavaScript numbers.  Amounts,       *)
(* prices and rates are modelled as exact rationals [num, den] in lowest   *)
(* terms, and every arithmetic expression is evaluated in the order the    *)
(* source writes it; rounding of IEEE-754 doubles is not modelled.         *)
(* Share counts and day numbers are integers.                              *)
(*                                                                         *)
(* Objects.  Every object is a record; a nullable reference holds either   *)
(* the object's record or Null.                                            *)
EXTENDS Integers, Sequences, FiniteSets, TLC

\* ------------------------------------------------------------------------
\* Bounds of the model

\* Operations applied by the ledger specification (Spec).
MaxSteps == 3
\* Longest operation list handed to the orchestrator (SpecRun).
MaxOps == 2

\* ------------------------------------------------------------------------
\* null / undefined

Null == [null |-> TRUE]

\* What a call does: it returns a value or throws an error.
Return(value) == [ok |-> TRUE, value |-> value]
Throw(error) == [ok |-> FALSE, error |-> error]

\* ------------------------------------------------------------------------
\* JavaScript numbers as exact rationals

Abs(i) == IF i < 0 THEN -i ELSE i

RECURSIVE GCD(_, _)
GCD(a, b) == IF b = 0 THEN a ELSE GCD(b, a % b)

\* The rational n/d (d # 0) in lowest terms with a positive denominator.
Rat(n, d) ==
    LET s == IF d < 0 THEN -1 ELSE 1
        g == GCD(Abs(n), Abs(d))
    IN  [num |-> (s * n) \div g, den |-> (s * d) \div g]

RInt(i) == [num |-> i, den |-> 1]
RAdd(a, b) == Rat(a.num * b.den + b.num * a.den, a.den * b.den)
RSub(a, b) == Rat(a.num * b.den - b.num * a.den, a.den * b.den)
RMul(a, b) == Rat(a.num * b.num, a.den * b.den)
\* a / b for b # 0 (every division of the modelled code is guarded).
RDiv(a, b) == Rat(a.num * b.den, a.den * b.num)
RPositive(a) == a.num > 0

\* ------------------------------------------------------------------------
\* Value objects

\* new Money(amount, currency); amounts of the model are always finite.
Money(amount, currency) == [amount |-> amount, currency |-> currency]

\* new ProfitLoss(amount, currency)
ProfitLoss(amount, currency) == [amount |-> amount, currency |-> currency]

\* new StockQuantity(value): the constructor throws on a negative value
\* (values of the model are always integers).
StockQuantityThrows(value) == value < 0
StockQuantity(value) == [value |-> value]

\* new Date(...): time is the day number, counted from 2023-01-01 = 0.
Date(time) == [time |-> time]
getTime(date) == date.time
\* Date.getFullYear, exact for the days of 2023 and 2024 (2023 has 365 days).
getFullYear(date) == 2023 + (date.time \div 365)
\* tryDate = new Date(d); tryDate.setDate(tryDate.getDate() - daysBack)
DaysBefore(date, daysBack) == Date(date.time - daysBack)

\* new ExchangeRate(from, to, date, bidRate, askRate): the constructor
\* throws unless the sides present are positive and one side is present.
ExchangeRateThrows(bidRate, askRate) ==
    \/ (bidRate # Null /\ ~RPositive(bidRate))
    \/ (askRate # Null /\ ~RPositive(askRate))
    \/ (bidRate = Null /\ askRate = Null)

ExchangeRate(fromCurrency, toCurrency, date, bidRate, askRate) ==
    [fromCurrency |-> fromCurrency, toCurrency |-> toCurrency, date |-> date,
     bidRate |-> bidRate, askRate |-> askRate]

\* ExchangeRate.convert(amount, useBid): the Money converted, or the error
\* thrown.
convert(rate, amount, useBid) ==
    LET conversionRate == IF useBid THEN rate.bidRate ELSE rate.askRate
    IN  IF amount.currency # rate.fromCurrency
        THEN Throw([name |-> "CurrencyMismatch"])
        ELSE IF conversionRate = Null
        THEN Throw([name |-> "RateSideNotAvailable"])
        ELSE Return(Money(RMul(amount.amount, conversionRate), rate.toCurrency))


\* ------------------------------------------------------------------------
\* PortfolioPosition

\* The constructor's invariant checks.
PortfolioPositionThrows(quantity, totalCostUsd, totalCostBrl) ==
    \/ quantity.value < 0
    \/ totalCostUsd.currency # "USD"
    \/ totalCostBrl.currency # "BRL"

\* new PortfolioPosition(...): the six public readonly fields, and the
\* private memo of the averagePriceBrl getter, null until first read.
PortfolioPosition(quantity, totalCostUsd, totalCostBrl, averagePriceUsd, grossProfitBrl, lastUpdated) ==
    [quantity |-> quantity, totalCostUsd |-> totalCostUsd,
     totalCostBrl |-> totalCostBrl, averagePriceUsd |-> averagePriceUsd,
     grossProfitBrl |-> grossProfitBrl, lastUpdated |-> lastUpdated,
     _averagePriceBrl |-> Null]

isEmpty(pos) == pos.quantity.value = 0

\* Faulty variant: the USD average converted at a spot rate of 5.
averagePriceBrlSpot(pos) == Money(RMul(pos.averagePriceUsd.amount, RInt(5)), "BRL")

\* The value the averagePriceBrl getter returns.
averagePriceBrl(pos) ==
    IF pos._averagePriceBrl = Null
    THEN IF isEmpty(pos)
         THEN Money(RInt(0), "BRL")
         ELSE Money(RDiv(pos.totalCostBrl.amount, RInt(pos.quantity.value)), "BRL")
    ELSE pos._averagePriceBrl

\* The position object once the averagePriceBrl getter has been read.
Memoized(pos) == [pos EXCEPT !._averagePriceBrl = averagePriceBrl(pos)]

\* The public fields of a position (what two position objects are compared by).
PublicFields(pos) ==
    [quantity |-> pos.quantity, totalCostUsd |-> pos.totalCostUsd,
     totalCostBrl |-> pos.totalCostBrl, averagePriceUsd |-> pos.averagePriceUsd,
     grossProfitBrl |-> pos.grossProfitBrl, lastUpdated |-> pos.lastUpdated]

createEmpty(date) ==
    PortfolioPosition(StockQuantity(0), Money(RInt(0), "USD"), Money(RInt(0), "BRL"),
                      Money(RInt(0), "USD"), ProfitLoss(RInt(0), "BRL"), date)

\* Faulty variant: the reset starts the year from an empty position.
resetToEmpty(pos) == createEmpty(pos.lastUpdated)

resetGrossProfitForNewYear(pos) ==
    PortfolioPosition(pos.quantity, pos.totalCostUsd, pos.totalCostBrl,
                      pos.averagePriceUsd, ProfitLoss(RInt(0), "BRL"), pos.lastUpdated)

\* ------------------------------------------------------------------------
\* OperationMetadata, OperationResult

OperationMetadata(operationType, operationDate, settlementDate, quantity, pricePerShareUsd, exchangeRates, tradeFinancials) ==
    [operationType |-> operationType, operationDate |-> operationDate,
     settlementDate |-> settlementDate, quantity |-> quantity,
     pricePerShareUsd |-> pricePerShareUsd, exchangeRates |-> exchangeRates,
     tradeFinancials |-> tradeFinancials]

OperationResult(position, metadata) == [position |-> position, metadata |-> metadata]

\* ------------------------------------------------------------------------
\* Operations.  An operation object has the fields of VestingOperation and
\* TradeOperation: type, date, quantity, pricePerShareUsd, _settlementDate.

\* The constructors' checks (the same in both classes).
OperationThrows(quantity, pricePerShareUsd) ==
    \/ pricePerShareUsd.currency # "USD"
    \/ quantity.value <= 0

VestingOperation(date, quantity, pricePerShareUsd, settlementDate) ==
    [type |-> "vesting", date |-> date, quantity |-> quantity,
     pricePerShareUsd |-> pricePerShareUsd, _settlementDate |-> settlementDate]

TradeOperation(date, quantity, pricePerShareUsd, settlementDate) ==
    [type |-> "trade", date |-> date, quantity |-> quantity,
     pricePerShareUsd |-> pricePerShareUsd, _settlementDate |-> settlementDate]

\* get settlementDate(): this._settlementDate ?? this.date
settlementDate(op) == IF op._settlementDate = Null THEN op.date ELSE op._settlementDate
getDate(op) == op.date
getSettlementDate(op) == settlementDate(op)

\* ------------------------------------------------------------------------
\* VestingOperation.execute

\* Faulty variant: only the side the vesting converts with is required.
VestingRatesMissingBidOnly(rate) == rate.bidRate = Null

VestingRatesMissing(rate) == rate.bidRate = Null \/ rate.askRate = Null

vestingCostUsd(op) ==
    Money(RMul(op.pricePerShareUsd.amount, RInt(op.quantity.value)), "USD")

\* Faulty variant: the vesting cost converted at the ask side.
vestingCostBrlAtAsk(op, rate) == convert(rate, vestingCostUsd(op), FALSE)

\* exchangeRate.convert(vestingCostUsd, true): the bid side.
vestingCostBrl(op, rate) == convert(rate, vestingCostUsd(op), TRUE)

VestingNewQuantity(op, pos) == pos.quantity.value + op.quantity.value

VestingNewTotalCostUsd(op, pos) ==
    Money(RAdd(pos.totalCostUsd.amount, vestingCostUsd(op).amount), "USD")

VestingNewTotalCostBrl(op, pos, costBrl) ==
    Money(RAdd(pos.totalCostBrl.amount, costBrl.amount), "BRL")

\* Faulty variant: the mean of the old average and the vesting price.
VestingMeanOfPricesUsd(op, pos) ==
    Money(RDiv(RAdd(pos.averagePriceUsd.amount, op.pricePerShareUsd.amount), RInt(2)), "USD")

VestingNewAvgPriceUsd(op, pos) ==
    Money(IF VestingNewQuantity(op, pos) > 0
          THEN RDiv(VestingNewTotalCostUsd(op, pos).amount, RInt(VestingNewQuantity(op, pos)))
          ELSE RInt(0),
          "USD")

\* No profit/loss on vesting: the position's grossProfitBrl is passed on.
VestingNewGrossProfitBrl(op, pos) == pos.grossProfitBrl

VestingExecute(op, pos, rate) ==
    IF VestingRatesMissing(rate)
    THEN Throw([name |-> "MissingExchangeRate"])
    ELSE LET costBrl == vestingCostBrl(op, rate)
         IN  IF ~costBrl.ok
             THEN Throw(costBrl.error)
             ELSE IF StockQuantityThrows(VestingNewQuantity(op, pos))
             THEN Throw([name |-> "Validation"])
             ELSE LET newQuantity == StockQuantity(VestingNewQuantity(op, pos))
                      newTotalCostUsd == VestingNewTotalCostUsd(op, pos)
                      newTotalCostBrl == VestingNewTotalCostBrl(op, pos, costBrl.value)
                  IN  IF PortfolioPositionThrows(newQuantity, newTotalCostUsd, newTotalCostBrl)
                      THEN Throw([name |-> "Validation"])
                      ELSE Return(OperationResult(
                               PortfolioPosition(newQuantity, newTotalCostUsd,
                                   newTotalCostBrl, VestingNewAvgPriceUsd(op, pos),
                                   VestingNewGrossProfitBrl(op, pos), op.date),
                               OperationMetadata("vesting", op.date, settlementDate(op),
                                   op.quantity, op.pricePerShareUsd,
                                   [ptaxBid |-> rate.bidRate, ptaxAsk |-> rate.askRate],
                                   Null)))

\* ------------------------------------------------------------------------
\* TradeOperation.execute

\* this.quantity.value > currentPosition.quantity.value
InsufficientShares(op, pos) == op.quantity.value > pos.quantity.value

TradeRatesMissing(rate) == rate.bidRate = Null \/ rate.askRate = Null

fractionSold(op, pos) == RDiv(RInt(op.quantity.value), RInt(pos.quantity.value))

TradeNewQuantity(op, pos) == pos.quantity.value - op.quantity.value

TradeNewTotalCostUsd(op, pos) ==
    Money(RMul(pos.totalCostUsd.amount, RSub(RInt(1), fractionSold(op, pos))), "USD")

\* Faulty variant: the BRL cost of the shares sold stays in the position.
TradeKeepsTotalCostBrl(op, pos) == pos.totalCostBrl

TradeNewTotalCostBrl(op, pos) ==
    Money(RMul(pos.totalCostBrl.amount, RSub(RInt(1), fractionSold(op, pos))), "BRL")

\* Faulty variant: the average is kept through a full liquidation too.
TradeKeepsAvgPriceUsd(op, pos) == pos.averagePriceUsd

\* The average is kept, and reset to zero when the portfolio is fully liquidated.
TradeNewAvgPriceUsd(op, pos) ==
    IF TradeNewQuantity(op, pos) = 0 THEN Money(RInt(0), "USD") ELSE pos.averagePriceUsd

saleRevenueUsd(op) ==
    Money(RMul(op.pricePerShareUsd.amount, RInt(op.quantity.value)), "USD")

\* exchangeRate.convert(saleRevenueUsd): useBid defaults to false, the ask side.
saleRevenueBrl(op, rate) == convert(rate, saleRevenueUsd(op), FALSE)

costBasisUsd(op, pos) ==
    Money(RMul(pos.averagePriceUsd.amount, RInt(op.quantity.value)), "USD")

\* Faulty variant: the USD average re-converted at the bid side of the call.
costBasisBrlSpot(op, pos, rate) ==
    Money(RMul(RMul(pos.averagePriceUsd.amount, rate.bidRate), RInt(op.quantity.value)), "BRL")

\* The cost basis takes the position's accumulated BRL average; the rate of
\* the call, in scope there, is not used.
costBasisBrl(op, pos, rate) ==
    Money(RMul(averagePriceBrl(pos).amount, RInt(op.quantity.value)), "BRL")

profitLossBrl(revenueBrl, basisBrl) ==
    ProfitLoss(RSub(revenueBrl.amount, basisBrl.amount), "BRL")

\* Faulty variant: the trade's own profit/loss replaces the running total.
newGrossProfitBrlOverwritten(pos, profitLoss) == ProfitLoss(profitLoss.amount, "BRL")

newGrossProfitBrl(pos, profitLoss) ==
    ProfitLoss(RAdd(pos.grossProfitBrl.amount, profitLoss.amount), "BRL")

\* execute, from the exchange-rate validation on.
TradeCompute(op, pos, rate) ==
    IF TradeRatesMissing(rate)
    THEN Throw([name |-> "MissingExchangeRate"])
    ELSE IF StockQuantityThrows(TradeNewQuantity(op, pos))
    THEN Throw([name |-> "Validation"])
    ELSE LET revenueBrl == saleRevenueBrl(op, rate)
         IN  IF ~revenueBrl.ok
             THEN Throw(revenueBrl.error)
             ELSE LET newQuantity == StockQuantity(TradeNewQuantity(op, pos))
                      newTotalCostUsd == TradeNewTotalCostUsd(op, pos)
                      newTotalCostBrl == TradeNewTotalCostBrl(op, pos)
                      basisBrl == costBasisBrl(op, pos, rate)
                      profitLoss == profitLossBrl(revenueBrl.value, basisBrl)
                  IN  IF PortfolioPositionThrows(newQuantity, newTotalCostUsd, newTotalCostBrl)
                      THEN Throw([name |-> "Validation"])
                      ELSE Return(OperationResult(
                               PortfolioPosition(newQuantity, newTotalCostUsd,
                                   newTotalCostBrl, TradeNewAvgPriceUsd(op, pos),
                                   newGrossProfitBrl(pos, profitLoss), op.date),
                               OperationMetadata("trade", op.date, settlementDate(op),
                                   op.quantity, op.pricePerShareUsd,
                                   [ptaxBid |-> rate.bidRate, ptaxAsk |-> rate.askRate],
                                   [saleRevenueUsd |-> saleRevenueUsd(op),
                                    saleRevenueBrl |-> revenueBrl.value,
                                    costBasisUsd |-> costBasisUsd(op, pos),
                                    costBasisBrl |-> basisBrl,
                                    profitLossBrl |-> profitLoss])))

\* Faulty variant: a sale of more shares than held is cut down to the shares held.
TradeExecuteClamped(op, pos, rate) ==
    IF pos.quantity.value = 0
    THEN Throw([name |-> "EmptyPortfolio"])
    ELSE TradeCompute(
             IF InsufficientShares(op, pos) THEN [op EXCEPT !.quantity = pos.quantity] ELSE op,
             pos, rate)

\* Faulty variant: the empty-portfolio check comes first.
TradeExecuteEmptyFirst(op, pos, rate) ==
    IF pos.quantity.value = 0
    THEN Throw([name |-> "EmptyPortfolio"])
    ELSE IF InsufficientShares(op, pos)
    THEN Throw([name |-> "InsufficientShares",
                requested |-> op.quantity.value, available |-> pos.quantity.value])
    ELSE TradeCompute(op, pos, rate)

\* The error of the first check carries the requested and the available count
\* in its message.
TradeExecute(op, pos, rate) ==
    IF InsufficientShares(op, pos)
    THEN Throw([name |-> "InsufficientShares",
                requested |-> op.quantity.value, available |-> pos.quantity.value])
    ELSE IF pos.quantity.value = 0
    THEN Throw([name |-> "EmptyPortfolio"])
    ELSE TradeCompute(op, pos, rate)

\* The trade reads currentPosition.averagePriceBrl once both checks and the
\* rate validation have passed, which fills that object's memo.
TradeReadsAverage(op, pos, rate) ==
    /\ ~InsufficientShares(op, pos)
    /\ pos.quantity.value # 0
    /\ ~TradeRatesMissing(rate)
    /\ ~StockQuantityThrows(TradeNewQuantity(op, pos))
    /\ saleRevenueBrl(op, rate).ok

\* operation.execute(currentPosition, exchangeRate), dispatched on the class.
Execute(op, pos, rate) ==
    IF op.type = "vesting" THEN VestingExecute(op, pos, rate) ELSE TradeExecute(op, pos, rate)

\* The currentPosition object as the call leaves it.
AfterExecute(op, pos, rate) ==
    IF op.type = "trade" /\ TradeReadsAverage(op, pos, rate) THEN Memoized(pos) ELSE pos

\* ------------------------------------------------------------------------
\* State

VARIABLES
    \* The ledger: operations executed one after the other on a position.
    position,          \* the current PortfolioPosition object
    steps,             \* execute calls made so far
    last,              \* the last execute call: op, before, rate, outcome
    \* One call of PortfolioCalculationService.executeOperations.
    operations,        \* the argument: the operation list as given
    initialPosition,   \* the argument: a PortfolioPosition or Null (undefined)
    pc,                \* where the call stands
    sortedOperations,  \* local: the sorted copy
    index,             \* local: 1-based position of the for-of loop
    currentPosition,   \* local
    positions,         \* local: PortfolioPosition[]
    results,           \* local: OperationResult[]
    daysBack,          \* local of getExchangeRateForOperation
    pending,           \* the date of the getRate call being awaited, or Null
    exchangeRate,      \* local: the rate found for the current operation
    queried,           \* the dates asked of getRate for the current operation
    lookupIssued,      \* whether getRate was ever called
    executedOn,        \* the position object each execute call was handed
    returned,          \* what the caller got: Null, [positions, results] or [error]
    inFlight,          \* getRate promises created and not yet settled
    \* The caller of the service and the ExchangeRateService it was built with.
    rateService,       \* the service's answers by day, or Null: any answer
    firstRun,          \* what a first call was given and returned, or Null
    \* One call of ProcessPortfolioUseCase.execute.
    repositories,      \* the data of the CompositeOperationRepository's repositories
    loaded,            \* what getAllOperations came to, or Null
    useCaseResponse,   \* what execute came to, or Null
    \* One usePortfolio hook and the processPortfolio calls made on it.
    state,             \* the PortfolioState
    abortControllerRef, \* abortControllerRef.current: Null or the run of the controller
    controllers,       \* per run: controller.signal.aborted
    runs,              \* per run: where it stands, its params
    \* One BCBExchangeRateService object and the getRate calls made on it.
    cache,             \* the Map, as its entries in insertion order
    now,               \* Date.now()
    calls,             \* per call: where it stands, its arguments, its result
    fetches            \* fetch() calls made so far

ledgerVars == <<position, steps, last>>
runVars == <<operations, initialPosition, pc, sortedOperations, index, currentPosition, positions, results, daysBack, pending, exchangeRate, queried, lookupIssued, executedOn, returned, inFlight>>
useCaseVars == <<repositories, loaded, useCaseResponse>>
hookVars == <<state, abortControllerRef, controllers, runs>>
callerVars == <<rateService, firstRun, useCaseVars, hookVars>>
bcbVars == <<cache, now, calls, fetches>>
vars == <<ledgerVars, runVars, callerVars, bcbVars>>

\* ------------------------------------------------------------------------
\* Inputs

\* Share counts of one operation.
Shares == {1, 2}

\* Prices per share, in USD.
Prices == {RInt(1), RInt(2)}

\* The (bid, ask) pairs of the PTAX rates: two complete quotes and the two
\* one-sided rates the ExchangeRate constructor accepts.
RatePairs ==
    {<<RInt(4), RInt(5)>>, <<RInt(5), RInt(6)>>, <<Null, RInt(5)>>, <<RInt(4), Null>>}

RatesOn(date) ==
    {ExchangeRate("USD", "BRL", date, pair[1], pair[2]) : pair \in RatePairs}

\* Positions a caller can construct to start from: the empty one, and one
\* built from two vestings at different PTAX rates (2 shares, 20 USD, 90 BRL,
\* USD average 10) that carries a realized loss from 2023-01-01.
SeedPositions ==
    {createEmpty(Date(0)),
     PortfolioPosition(StockQuantity(2), Money(RInt(20), "USD"), Money(RInt(90), "BRL"),
                       Money(RInt(10), "USD"), ProfitLoss(RInt(-2), "BRL"), Date(0))}

\* ------------------------------------------------------------------------
\* The ledger specification: execute applied to a position, as a caller of
\* the operation classes does.

RunIdle ==
    /\ operations = <<>>
    /\ initialPosition = Null
    /\ pc = "idle"
    /\ sortedOperations = <<>>
    /\ index = 0
    /\ currentPosition = Null
    /\ positions = <<>>
    /\ results = <<>>
    /\ daysBack = 0
    /\ pending = Null
    /\ exchangeRate = Null
    /\ queried = <<>>
    /\ lookupIssued = FALSE
    /\ executedOn = <<>>
    /\ returned = Null
    /\ inFlight = 0

\* No ProcessPortfolioUseCase.execute call.
UseCaseIdle ==
    /\ repositories = <<>>
    /\ loaded = Null
    /\ useCaseResponse = Null

\* processPortfolio calls made on one hook.
MaxRuns == 2

\* const initialState: PortfolioState
initialState ==
    [status |-> "idle", response |-> Null, snapshots |-> <<>>, error |-> Null,
     progress |-> Null]

\* usePortfolio(): the initial state, no controller, no call made.
HookIdle ==
    /\ state = initialState
    /\ abortControllerRef = Null
    /\ controllers = [r \in 1..MaxRuns |-> FALSE]
    /\ runs = [r \in 1..MaxRuns |-> [pc |-> "idle", params |-> Null, currentStep |-> 0]]

CallerIdle ==
    /\ rateService = Null
    /\ firstRun = Null
    /\ UseCaseIdle
    /\ HookIdle

\* getRate calls made on one BCBExchangeRateService object.
MaxCalls == 2
CallIds == 1..MaxCalls

\* A getRate call not made yet.
NotMade ==
    [pc |-> "idle", fromCurrency |-> Null, toCurrency |-> Null, date |-> Null,
     attempt |-> 0, response |-> Null, result |-> Null]

\* new BCBExchangeRateService(): an empty cache, no call made.
BCBIdle ==
    /\ cache = <<>>
    /\ now = 0
    /\ calls = [c \in CallIds |-> NotMade]
    /\ fetches = 0

NoCall == [op |-> Null, before |-> Null, rate |-> Null, outcome |-> Null]

Init ==
    /\ position \in SeedPositions
    /\ steps = 0
    /\ last = NoCall
    /\ RunIdle
    /\ CallerIdle
    /\ BCBIdle

\* op.execute(position, rate); the position is replaced when the call returns.
Apply(op, rate) ==
    LET outcome == Execute(op, position, rate)
        before == AfterExecute(op, position, rate)
    IN  /\ steps < MaxSteps
        /\ ~OperationThrows(op.quantity, op.pricePerShareUsd)
        /\ ~ExchangeRateThrows(rate.bidRate, rate.askRate)
        /\ position' = IF outcome.ok THEN outcome.value.position ELSE before
        /\ steps' = steps + 1
        /\ last' = [op |-> op, before |-> before, rate |-> rate, outcome |-> outcome]
        /\ UNCHANGED runVars
        /\ UNCHANGED callerVars
        /\ UNCHANGED bcbVars

Vesting(q, p, rate) ==
    Apply(VestingOperation(Date(steps + 1), StockQuantity(q), Money(p, "USD"), Null), rate)

Trade(q, p, rate) ==
    Apply(TradeOperation(Date(steps + 1), StockQuantity(q), Money(p, "USD"), Null), rate)

\* A reader (a report, an export) gets position.averagePriceBrl.
ReadAveragePriceBrl ==
    /\ position._averagePriceBrl = Null
    /\ position' = Memoized(position)
    /\ UNCHANGED <<steps, last>>
    /\ UNCHANGED runVars
    /\ UNCHANGED callerVars
    /\ UNCHANGED bcbVars

Next ==
    \/ \E q \in Shares, p \in Prices, rate \in RatesOn(Date(steps + 1)) : Vesting(q, p, rate)
    \/ \E q \in Shares, p \in Prices, rate \in RatesOn(Date(steps + 1)) : Trade(q, p, rate)
    \/ ReadAveragePriceBrl

Spec == Init /\ [][Next]_vars

\* ------------------------------------------------------------------------
\* PortfolioCalculationService

\* for (let daysBack = 0; daysBack <= 7; daysBack++)
MaxDaysBack == 7

\* Faulty variant: < for <=.
WithinFallbackExclusive(days) == days < MaxDaysBack

\* Faulty variant: one more day.
WithinFallbackOneMore(days) == days <= MaxDaysBack + 1

\* The loop condition of getExchangeRateForOperation.
WithinFallback(days) == days <= MaxDaysBack

\* Faulty variant: a catch around the loop body returns what has been pushed.
RejectedWithPartial(error) == [positions |-> positions, results |-> results]

\* What the caller gets when the call throws: the rejection of its promise.
Rejected(error) == [error |-> error]

\* [...operations].sort((a, b) => a.getDate().getTime() - b.getDate().getTime()):
\* Array.prototype.sort is stable, so operations of one date keep their order.
\* Insert(op, sorted) puts op behind every element that is not later than it.
\* Faulty variant: the comparator takes the settlement dates.
RECURSIVE InsertBySettlementDate(_, _)
InsertBySettlementDate(op, sorted) ==
    IF sorted = <<>>
    THEN <<op>>
    ELSE IF getTime(getSettlementDate(Head(sorted))) - getTime(getSettlementDate(op)) > 0
    THEN <<op>> \o sorted
    ELSE <<Head(sorted)>> \o InsertBySettlementDate(op, Tail(sorted))

RECURSIVE Insert(_, _)
Insert(op, sorted) ==
    IF sorted = <<>>
    THEN <<op>>
    ELSE IF getTime(getDate(Head(sorted))) - getTime(getDate(op)) > 0
    THEN <<op>> \o sorted
    ELSE <<Head(sorted)>> \o Insert(op, Tail(sorted))

RECURSIVE SortFrom(_, _)
SortFrom(ops, sorted) ==
    IF ops = <<>> THEN sorted ELSE SortFrom(Tail(ops), Insert(Head(ops), sorted))

\* Faulty variant: the operations are taken in the order given.
NotSorted(ops) == ops

SortByDate(ops) == SortFrom(ops, <<>>)

\* Faulty variant: >= for >.
NewYearOrSame(op, pos) == getFullYear(getDate(op)) >= getFullYear(pos.lastUpdated)

\* The year-boundary test of both reset sites.
NewYear(op, pos) == getFullYear(getDate(op)) > getFullYear(pos.lastUpdated)

\* Faulty variant: currentPosition is a field of the service that a call
\* initialises only when it is unset, so a later call goes on from the
\* position the call before it ended with.
StartOfLoopFromField(ops, initial) ==
    LET sorted == SortByDate(ops)
        start == IF currentPosition # Null
                 THEN currentPosition
                 ELSE IF initial = Null THEN createEmpty(getDate(sorted[1])) ELSE initial
    IN  [pc |-> "loop", returned |-> Null, sortedOperations |-> sorted,
         currentPosition |->
             IF initial # Null /\ NewYear(sorted[1], start)
             THEN resetGrossProfitForNewYear(start)
             ELSE start]

\* Faulty variant: the sorted copy is walked from its latest operation.
StartOfLoopLatestFirst(ops, initial) ==
    LET ascending == SortByDate(ops)
        sorted == [i \in 1..Len(ops) |-> ascending[Len(ops) + 1 - i]]
        start == IF initial = Null THEN createEmpty(getDate(sorted[1])) ELSE initial
    IN  [pc |-> "loop", returned |-> Null, sortedOperations |-> sorted,
         currentPosition |->
             IF initial # Null /\ NewYear(sorted[1], start)
             THEN resetGrossProfitForNewYear(start)
             ELSE start]

\* executeOperations from the sort up to the loop: the sorted copy, the
\* starting position and its reset for the first operation.
StartOfLoop(ops, initial) ==
    LET sorted == SortByDate(ops)
        start == IF initial = Null THEN createEmpty(getDate(sorted[1])) ELSE initial
    IN  [pc |-> "loop", returned |-> Null, sortedOperations |-> sorted,
         currentPosition |->
             IF initial # Null /\ NewYear(sorted[1], start)
             THEN resetGrossProfitForNewYear(start)
             ELSE start]

\* Faulty variant: no early return; sortedOperations[0] of an empty list is
\* undefined and its getDate() call throws.
executeOperationsEntryWithoutEmptyCheck(ops, initial) ==
    IF Len(ops) = 0
    THEN [pc |-> "done", returned |-> [error |-> [name |-> "TypeError"]],
          sortedOperations |-> <<>>, currentPosition |-> Null]
    ELSE StartOfLoop(ops, initial)

\* executeOperations up to the loop: the early return for an empty list,
\* else the start of the loop.
executeOperationsEntry(ops, initial) ==
    IF Len(ops) = 0
    THEN [pc |-> "done", returned |-> [positions |-> <<>>, results |-> <<>>],
          sortedOperations |-> <<>>, currentPosition |-> Null]
    ELSE StartOfLoop(ops, initial)

\* Faulty variant: no reset inside the loop.
LoopResetMissing(op, pos, done) == pos

\* The reset at the head of an iteration.
LoopReset(op, pos, done) ==
    IF Len(done) > 0 /\ NewYear(op, pos) THEN resetGrossProfitForNewYear(pos) ELSE pos

\* The operation lists a caller hands over: every list of at most MaxOps of
\* these operations, around the turn of the year 2023/2024 (day 364 is
\* 2023-12-31), two of them on the same day, one settled two days later.
RunOperations ==
    {VestingOperation(Date(358), StockQuantity(2), Money(RInt(1), "USD"), Null),
     VestingOperation(Date(364), StockQuantity(1), Money(RInt(2), "USD"), Date(366)),
     VestingOperation(Date(366), StockQuantity(1), Money(RInt(1), "USD"), Null),
     TradeOperation(Date(364), StockQuantity(1), Money(RInt(2), "USD"), Null),
     TradeOperation(Date(366), StockQuantity(2), Money(RInt(1), "USD"), Null),
     TradeOperation(Date(358), StockQuantity(3), Money(RInt(1), "USD"), Null)}

OperationLists == UNION {[1..n -> RunOperations] : n \in 0..MaxOps}

LedgerIdle ==
    /\ position = createEmpty(Date(0))
    /\ steps = 0
    /\ last = NoCall

InitRun ==
    /\ LedgerIdle
    /\ operations \in OperationLists
    /\ initialPosition \in {Null} \cup SeedPositions
    /\ pc = "idle"
    /\ sortedOperations = <<>>
    /\ index = 0
    /\ currentPosition = Null
    /\ positions = <<>>
    /\ results = <<>>
    /\ daysBack = 0
    /\ pending = Null
    /\ exchangeRate = Null
    /\ queried = <<>>
    /\ lookupIssued = FALSE
    /\ executedOn = <<>>
    /\ returned = Null
    /\ inFlight = 0
    /\ CallerIdle
    /\ BCBIdle

\* The call, up to the first iteration of the loop.
executeOperations ==
    LET entry == executeOperationsEntry(operations, initialPosition)
    IN  /\ pc = "idle"
        /\ pc' = entry.pc
        /\ returned' = entry.returned
        /\ sortedOperations' = entry.sortedOperations
        /\ currentPosition' = entry.currentPosition
        /\ index' = 1
        /\ positions' = <<>>
        /\ results' = <<>>
        /\ UNCHANGED <<operations, initialPosition, daysBack, pending, exchangeRate, queried, lookupIssued, executedOn, inFlight>>
        /\ UNCHANGED ledgerVars
        /\ UNCHANGED callerVars
        /\ UNCHANGED bcbVars

\* for (const operation of sortedOperations): the next operation, its
\* year-boundary reset and the start of getExchangeRateForOperation; or the
\* return after the last one.
ForOf ==
    /\ pc = "loop"
    /\ IF index > Len(sortedOperations)
       THEN /\ pc' = "done"
            /\ returned' = [positions |-> positions, results |-> results]
            /\ UNCHANGED <<currentPosition, daysBack, queried>>
       ELSE /\ pc' = "lookup"
            /\ currentPosition' = LoopReset(sortedOperations[index], currentPosition, positions)
            /\ daysBack' = 0
            /\ queried' = <<>>
            /\ UNCHANGED returned
    /\ UNCHANGED <<operations, initialPosition, sortedOperations, index, positions, results, pending, exchangeRate, lookupIssued, executedOn, inFlight>>
    /\ UNCHANGED ledgerVars
    /\ UNCHANGED callerVars
    /\ UNCHANGED bcbVars

\* Faulty variant: the getRate promise is not awaited; the loop goes on to
\* the next day with the call outstanding.
CallGetRateNotAwaited ==
    /\ pc = "lookup"
    /\ IF WithinFallback(daysBack)
       THEN LET tryDate == DaysBefore(getSettlementDate(sortedOperations[index]), daysBack)
            IN  /\ pc' = "lookup"
                /\ pending' = tryDate
                /\ queried' = Append(queried, tryDate)
                /\ lookupIssued' = TRUE
                /\ inFlight' = inFlight + 1
                /\ daysBack' = daysBack + 1
                /\ UNCHANGED returned
       ELSE /\ pc' = "done"
            /\ returned' = Rejected([name |-> "RateNotFound"])
            /\ UNCHANGED <<pending, queried, lookupIssued, inFlight, daysBack>>
    /\ UNCHANGED <<operations, initialPosition, sortedOperations, index, currentPosition, positions, results, exchangeRate, executedOn>>
    /\ UNCHANGED ledgerVars
    /\ UNCHANGED callerVars
    /\ UNCHANGED bcbVars

\* One turn of the daysBack loop: the getRate call for tryDate, or the throw
\* once daysBack has passed 7.
CallGetRate ==
    /\ pc = "lookup"
    /\ IF WithinFallback(daysBack)
       THEN LET tryDate == DaysBefore(getSettlementDate(sortedOperations[index]), daysBack)
            IN  /\ pc' = "await"
                /\ pending' = tryDate
                /\ queried' = Append(queried, tryDate)
                /\ lookupIssued' = TRUE
                /\ inFlight' = inFlight + 1
                /\ UNCHANGED returned
       ELSE /\ pc' = "done"
            /\ returned' = Rejected([name |-> "RateNotFound"])
            /\ UNCHANGED <<pending, queried, lookupIssued, inFlight>>
    /\ UNCHANGED <<operations, initialPosition, sortedOperations, index, currentPosition, positions, results, daysBack, exchangeRate, executedOn>>
    /\ UNCHANGED ledgerVars
    /\ UNCHANGED callerVars
    /\ UNCHANGED bcbVars

\* The awaited getRate promise resolves, with a rate or with null.
GetRateResolves(rate) ==
    /\ pc = "await"
    /\ pending' = Null
    /\ inFlight' = inFlight - 1
    /\ IF rate # Null
       THEN /\ exchangeRate' = rate
            /\ pc' = "execute"
            /\ UNCHANGED daysBack
       ELSE /\ daysBack' = daysBack + 1
            /\ pc' = "lookup"
            /\ UNCHANGED exchangeRate
    /\ UNCHANGED <<operations, initialPosition, sortedOperations, index, currentPosition, positions, results, queried, lookupIssued, executedOn, returned>>
    /\ UNCHANGED ledgerVars
    /\ UNCHANGED callerVars
    /\ UNCHANGED bcbVars

\* currentPosition is the object last pushed, unless this iteration reset it.
SameAsLastPushed(op) ==
    Len(positions) > 0 /\ ~NewYear(op, positions[Len(positions)])

\* currentPosition is the caller's initialPosition object.
SameAsInitial(op) ==
    index = 1 /\ initialPosition # Null /\ ~NewYear(op, initialPosition)

\* operation.execute(currentPosition, exchangeRate) and the two pushes; a
\* throw rejects the call's promise.  A trade's read of averagePriceBrl
\* fills the memo of the object it was handed, wherever that object is held.
ExecuteOperation ==
    LET op == sortedOperations[index]
        outcome == Execute(op, currentPosition, exchangeRate)
        handed == AfterExecute(op, currentPosition, exchangeRate)
        held == IF SameAsLastPushed(op)
                THEN [positions EXCEPT ![Len(positions)] = handed]
                ELSE positions
        heldResults == IF SameAsLastPushed(op)
                       THEN [results EXCEPT ![Len(results)].position = handed]
                       ELSE results
    IN  /\ pc = "execute"
        /\ executedOn' = Append(executedOn, handed)
        /\ initialPosition' = IF SameAsInitial(op) THEN handed ELSE initialPosition
        /\ exchangeRate' = Null
        /\ IF outcome.ok
           THEN /\ currentPosition' = outcome.value.position
                /\ positions' = Append(held, outcome.value.position)
                /\ results' = Append(heldResults, outcome.value)
                /\ index' = index + 1
                /\ pc' = "loop"
                /\ UNCHANGED returned
           ELSE /\ pc' = "done"
                /\ returned' = Rejected(outcome.error)
                /\ currentPosition' = handed
                /\ positions' = held
                /\ results' = heldResults
                /\ UNCHANGED index
        /\ UNCHANGED <<operations, sortedOperations, daysBack, pending, queried, lookupIssued, inFlight>>
        /\ UNCHANGED ledgerVars
        /\ UNCHANGED callerVars
        /\ UNCHANGED bcbVars

NextRun ==
    \/ executeOperations
    \/ ForOf
    \/ CallGetRate
    \/ \E rate \in {Null} \cup RatesOn(pending) : GetRateResolves(rate)
    \/ ExecuteOperation

SpecRun == InitRun /\ [][NextRun]_vars

\* ------------------------------------------------------------------------
\* The orchestrator with an ExchangeRateService whose answer depends on the
\* date alone, as the services of the repository and of its tests do.

\* Longest operation list handed to such a service.
MaxListed == 3

\* The days getRate can be asked about: up to 7 days before a settlement date.
ServiceDays == (358 - MaxDaysBack)..366

\* Days without a quotation: none; the seven days up to 2024-01-02, which
\* leave the day 7 days before 2024-01-02 quoted; and the eight days up to it.
ClosedDays == {{}, 360..366, 359..366}

\* The (bid, ask) quoted per day: one quote throughout; a quote that changes
\* on 2023-12-31; and one that lacks the ask side from then on.
QuoteTables ==
    {[d \in ServiceDays |-> <<RInt(4), RInt(5)>>],
     [d \in ServiceDays |-> IF d < 364 THEN <<RInt(4), RInt(5)>> ELSE <<RInt(5), RInt(6)>>],
     [d \in ServiceDays |-> IF d < 364 THEN <<RInt(4), RInt(5)>> ELSE <<RInt(4), Null>>]}

\* getRate('USD', 'BRL', date) of a service: a rate, or null on a closed day.
RateServices ==
    {[d \in ServiceDays |->
         IF d \in closed
         THEN Null
         ELSE ExchangeRate("USD", "BRL", Date(d), quotes[d][1], quotes[d][2])] :
     closed \in ClosedDays, quotes \in QuoteTables}

ListedOperations == UNION {[1..n -> RunOperations] : n \in 0..MaxListed}

\* No call made yet: the state of InitRun but for the arguments and the service.
NotCalled ==
    /\ LedgerIdle
    /\ pc = "idle"
    /\ sortedOperations = <<>>
    /\ index = 0
    /\ currentPosition = Null
    /\ positions = <<>>
    /\ results = <<>>
    /\ daysBack = 0
    /\ pending = Null
    /\ exchangeRate = Null
    /\ queried = <<>>
    /\ lookupIssued = FALSE
    /\ executedOn = <<>>
    /\ returned = Null
    /\ inFlight = 0
    /\ firstRun = Null
    /\ UseCaseIdle
    /\ HookIdle
    /\ BCBIdle

InitService ==
    /\ NotCalled
    /\ operations \in ListedOperations
    /\ initialPosition \in {Null} \cup SeedPositions
    /\ rateService \in RateServices

\* The awaited getRate promise resolves with the service's answer for the day.
GetRateFromService ==
    /\ rateService # Null
    /\ pending # Null
    /\ GetRateResolves(rateService[getTime(pending)])

NextService ==
    \/ executeOperations
    \/ ForOf
    \/ CallGetRate
    \/ GetRateFromService
    \/ ExecuteOperation

SpecService == InitService /\ [][NextService]_vars

\* ------------------------------------------------------------------------
\* A caller that runs a list and then runs it again, rearranged or not, on
\* the same service and from the same initial position.

\* The rearrangements of a list.
Rearrangements(ops) ==
    {[i \in 1..Len(ops) |-> ops[f[i]]] :
        f \in {g \in [1..Len(ops) -> 1..Len(ops)] :
                  \A i \in 1..Len(ops) : \E j \in 1..Len(ops) : g[j] = i}}

InitTwice ==
    /\ NotCalled
    /\ operations \in OperationLists
    /\ initialPosition \in {Null} \cup SeedPositions
    /\ rateService \in RateServices

\* The second call.  The locals of the first call are gone with it; the ones
\* of the new call are set as it runs.
executeOperationsAgain(ops) ==
    /\ pc = "done"
    /\ firstRun = Null
    /\ firstRun' = [operations |-> operations, returned |-> returned]
    /\ operations' = ops
    /\ pc' = "idle"
    /\ returned' = Null
    /\ executedOn' = <<>>
    /\ lookupIssued' = FALSE
    /\ UNCHANGED <<initialPosition, sortedOperations, index, currentPosition, positions, results, daysBack, pending, exchangeRate, queried, inFlight, rateService>>
    /\ UNCHANGED useCaseVars
    /\ UNCHANGED hookVars
    /\ UNCHANGED ledgerVars
    /\ UNCHANGED bcbVars

NextTwice ==
    \/ NextService
    \/ \E ops \in Rearrangements(operations) : executeOperationsAgain(ops)

SpecTwice == InitTwice /\ [][NextTwice]_vars

\* A caller that runs a list and then runs only its k earliest operations, on
\* the same service and from the same initial position.
NextEarliest ==
    \/ NextService
    \/ \E k \in 0..Len(operations) :
           executeOperationsAgain(SubSeq(SortByDate(operations), 1, k))

SpecEarliest == InitTwice /\ [][NextEarliest]_vars

\* ------------------------------------------------------------------------
\* ProcessPortfolioUseCase, with the CompositeOperationRepository it loads
\* from and the PortfolioSnapshot objects it builds

\* Repositories handed to one CompositeOperationRepository.
MaxRepositories == 2

\* new Date(year, month - 1, day) on the calendar of Date: day 0 is
\* 2023-01-01 and the years have 365 days.
DaysBeforeMonth == <<0, 31, 59, 90, 120, 151, 181, 212, 243, 273, 304, 334>>

\* DateParser.parse on a string that matches one of the formats, given as
\* the numbers it holds.
DateParserParse(dateStr) ==
    IF dateStr.month < 1 \/ dateStr.month > 12
    THEN Throw([name |-> "InvalidMonth"])
    ELSE IF dateStr.day < 1 \/ dateStr.day > 31
    THEN Throw([name |-> "InvalidDay"])
    ELSE Return(Date((dateStr.year - 2023) * 365 + DaysBeforeMonth[dateStr.month]
                         + dateStr.day - 1))

\* data.type.toLowerCase(), on the spellings of the inputs.
toLowerCase(type) ==
    CASE type = "Vesting" -> "vesting"
      [] type = "TRADE" -> "trade"
      [] OTHER -> type

\* Math.floor
MathFloor(number) == number.num \div number.den

\* JSONOperationRepository.createOperationFromObject
createOperationFromObject(data) ==
    LET operationType == toLowerCase(data.type)
        quantity == StockQuantity(MathFloor(data.quantity))
        price == Money(data.price, "USD")
        date == DateParserParse(data.date)
        settlement == IF data.settlement_date = Null
                      THEN Return(Null)
                      ELSE DateParserParse(data.settlement_date)
    IN  IF StockQuantityThrows(MathFloor(data.quantity))
        THEN Throw([name |-> "Validation"])
        ELSE IF ~date.ok
        THEN date
        ELSE IF ~settlement.ok
        THEN settlement
        ELSE IF operationType \notin {"vesting", "trade"}
        THEN Throw([name |-> "UnsupportedOperationType"])
        ELSE IF OperationThrows(quantity, price)
        THEN Throw([name |-> "Validation"])
        ELSE IF operationType = "vesting"
        THEN Return(VestingOperation(date.value, quantity, price, settlement.value))
        ELSE Return(TradeOperation(date.value, quantity, price, settlement.value))

\* JSONOperationRepository.getAllOperations: every failure of JSON.parse and
\* of createOperationFromObject is thrown again as one error.
JSONGetAllOperations(jsonData) ==
    IF "invalid" \in DOMAIN jsonData
       \/ \E i \in 1..Len(jsonData.data) : ~createOperationFromObject(jsonData.data[i]).ok
    THEN Throw([name |-> "FailedToParseJSONOperations"])
    ELSE Return([i \in 1..Len(jsonData.data) |->
                    createOperationFromObject(jsonData.data[i]).value])

\* The body of the for-of loop of CompositeOperationRepository: the
\* operations of a repository are pushed, its error is swallowed.
LoadFromDropsAll(loading, allOperations) ==
    IF loading.ok THEN allOperations \o loading.value ELSE <<>>
LoadFrom(loading, allOperations) ==
    IF loading.ok THEN allOperations \o loading.value ELSE allOperations

RECURSIVE LoadAll(_, _)
LoadAll(repos, allOperations) ==
    IF repos = <<>>
    THEN allOperations
    ELSE LoadAll(Tail(repos), LoadFrom(JSONGetAllOperations(Head(repos)), allOperations))

\* CompositeOperationRepository.getAllOperations.  Its sort has the
\* comparator of the sort of executeOperations.
CompositeGetAllOperations(repos) == Return(SortByDate(LoadAll(repos, <<>>)))

\* new PortfolioSnapshot(position, metadata, previousPosition)
PortfolioSnapshot(pos, metadata, previousPosition) ==
    [position |-> pos, metadata |-> metadata, previousPosition |-> previousPosition]

\* PortfolioSnapshot.getOperationProfitLoss
getOperationProfitLoss(snapshot) ==
    IF snapshot.metadata.tradeFinancials = Null \/ snapshot.previousPosition = Null
    THEN Null
    ELSE ProfitLoss(RSub(snapshot.position.grossProfitBrl.amount,
                         snapshot.previousPosition.grossProfitBrl.amount), "BRL")

\* PortfolioAnalyticsService.calculateTotalReturnBrl
calculateTotalReturnBrl(allPositions) ==
    IF Len(allPositions) = 0
    THEN ProfitLoss(RInt(0), "BRL")
    ELSE allPositions[Len(allPositions)].grossProfitBrl

\* new Date() of the day execute is called on.
Today == Date(366)

\* ProcessPortfolioUseCase.execute from the operations it loaded and what
\* executeOperations came to (Null: not called).
ProcessPortfolioResponse(ops, run) ==
    IF Len(ops) = 0
    THEN Return([finalPosition |-> createEmpty(Today), snapshots |-> <<>>,
                 totalOperations |-> 0, totalReturnBrl |-> ProfitLoss(RInt(0), "BRL")])
    ELSE IF "error" \in DOMAIN run
    THEN Throw(run.error)
    ELSE IF Len(run.positions) = 0
    THEN Throw([name |-> "FailedToCalculateFinalPosition"])
    ELSE Return([finalPosition |-> run.positions[Len(run.positions)],
                 snapshots |->
                     [i \in 1..Len(run.results) |->
                         PortfolioSnapshot(run.results[i].position, run.results[i].metadata,
                                           IF i > 1 THEN run.positions[i - 1] ELSE Null)],
                 totalOperations |-> Len(ops),
                 totalReturnBrl |-> calculateTotalReturnBrl(run.positions)])

\* An element of a parsed JSON array; a date string is given as the numbers
\* it holds.
JSONOperation(type, year, month, day, quantity, price) ==
    [type |-> type, date |-> [year |-> year, month |-> month, day |-> day],
     quantity |-> quantity, price |-> price, settlement_date |-> Null]

\* The jsonData of the repositories: text that is not JSON, and arrays of
\* the operations of two years, in the spellings and with the fractional
\* share count the repository accepts, and of one of a type it does not know.
JSONFiles ==
    LET vestingInDecember == JSONOperation("vesting", 2023, 12, 25, RInt(2), RInt(1))
        vestingInJanuary == JSONOperation("Vesting", 2024, 1, 2, Rat(3, 2), RInt(1))
        tradeInDecember == JSONOperation("trade", 2023, 12, 31, RInt(1), RInt(2))
        tradeInJanuary == JSONOperation("TRADE", 2024, 1, 2, RInt(2), RInt(1))
        dividend == JSONOperation("dividend", 2023, 12, 31, RInt(1), RInt(1))
    IN  {[invalid |-> TRUE]}
            \cup {[data |-> d] : d \in {<<>>, <<vestingInDecember>>, <<tradeInDecember>>,
                                        <<tradeInJanuary>>,
                                        <<vestingInJanuary, vestingInDecember>>,
                                        <<vestingInDecember, dividend>>}}

InitUseCase ==
    /\ LedgerIdle
    /\ RunIdle
    /\ BCBIdle
    /\ HookIdle
    /\ firstRun = Null
    /\ loaded = Null
    /\ useCaseResponse = Null
    /\ repositories \in UNION {[1..n -> JSONFiles] : n \in 0..MaxRepositories}
    /\ rateService \in RateServices

\* execute is called: const operations = await getAllOperations()
getAllOperations(requested) ==
    LET loading == CompositeGetAllOperations(repositories)
    IN  /\ loaded = Null
        /\ loaded' = loading
        /\ operations' = loading.value
        /\ initialPosition' = requested
        /\ UNCHANGED <<pc, sortedOperations, index, currentPosition, positions, results, daysBack, pending, exchangeRate, queried, lookupIssued, executedOn, returned, inFlight>>
        /\ UNCHANGED <<rateService, firstRun, repositories, useCaseResponse>>
        /\ UNCHANGED hookVars
        /\ UNCHANGED ledgerVars
        /\ UNCHANGED bcbVars

\* await this.calculationService.executeOperations(operations, request.initialPosition)
ExecuteLoaded ==
    /\ loaded # Null
    /\ Len(operations) # 0
    /\ executeOperations

\* execute returns or throws: at once when nothing was loaded, else when
\* executeOperations is over.
ProcessPortfolioResponds ==
    /\ loaded # Null
    /\ useCaseResponse = Null
    /\ \/ Len(operations) = 0
       \/ pc = "done"
    /\ useCaseResponse' = ProcessPortfolioResponse(operations, returned)
    /\ UNCHANGED <<rateService, firstRun, repositories, loaded>>
    /\ UNCHANGED hookVars
    /\ UNCHANGED ledgerVars
    /\ UNCHANGED runVars
    /\ UNCHANGED bcbVars

NextUseCase ==
    \/ \E requested \in {Null} \cup SeedPositions : getAllOperations(requested)
    \/ ExecuteLoaded
    \/ ForOf
    \/ CallGetRate
    \/ GetRateFromService
    \/ ExecuteOperation
    \/ ProcessPortfolioResponds

SpecUseCase == InitUseCase /\ [][NextUseCase]_vars

\* ------------------------------------------------------------------------
\* usePortfolio: processPortfolio calls, cancelProcessing and reset on one
\* hook.  A call runs up to an await in one step; the use case it awaits is
\* taken by what it comes to.

\* What a call is handed: whether there are manual entries, a JSON file, PDFs.
RunParams == [manualEntriesJSON : BOOLEAN, jsonFile : BOOLEAN, pdfs : BOOLEAN]

\* The response useCase.execute resolves with in a run.
ResponseOf(r) == [run |-> r, snapshots |-> <<[run |-> r]>>]

\* The state after setState((prev) => ({ ...prev, progress: { current,
\* total: totalSteps, message } })).
WithProgress(prev, current, message) ==
    [prev EXCEPT !.progress = [current |-> current, total |-> 3, message |-> message]]

\* controller.signal.aborted
signalNeverAborted(r) == FALSE
signalAborted(r) == controllers[r]

\* abortControllerRef.current?.abort()
AbortCurrent ==
    [r \in 1..MaxRuns |->
        IF abortControllerRef # Null /\ abortControllerRef.run = r THEN TRUE ELSE controllers[r]]

\* processPortfolio up to its first await: readFileAsText when there is a JSON
\* file, else useCase.execute.  The calls are numbered in the order made.
processPortfolio(r, params) ==
    LET loading == [state EXCEPT !.status = "loading", !.error = Null]
        afterManual == IF params.manualEntriesJSON THEN 1 ELSE 0
        afterPDFs == afterManual + (IF params.pdfs THEN 1 ELSE 0)
    IN  /\ runs[r].pc = "idle"
        /\ \A earlier \in 1..(r - 1) : runs[earlier].pc # "idle"
        /\ controllers' = AbortCurrent
        /\ abortControllerRef' = [run |-> r]
        /\ IF params.jsonFile
           THEN /\ state' = WithProgress(loading, afterManual, "Carregando arquivo JSON...")
                /\ runs' = [runs EXCEPT ![r] = [pc |-> "reading", params |-> params,
                                                currentStep |-> afterManual]]
           ELSE /\ state' = WithProgress(loading, afterPDFs, "Calculando...")
                /\ runs' = [runs EXCEPT ![r] = [pc |-> "executing", params |-> params,
                                                currentStep |-> afterPDFs]]
        /\ UNCHANGED <<rateService, firstRun, useCaseVars>>
        /\ UNCHANGED <<ledgerVars, runVars, bcbVars>>

\* The catch block of processPortfolio in run r.
Caught(r) ==
    IF signalAborted(r)
    THEN /\ runs' = [runs EXCEPT ![r].pc = "dropped"]
         /\ UNCHANGED state
    ELSE /\ runs' = [runs EXCEPT ![r].pc = "failed"]
         /\ state' = [state EXCEPT !.status = "error", !.error = [run |-> r],
                                   !.progress = Null]

\* readFileAsText settles: the run goes on to useCase.execute, or to the catch.
FileRead(r, read) ==
    LET afterJSON == runs[r].currentStep + 1
        afterPDFs == afterJSON + (IF runs[r].params.pdfs THEN 1 ELSE 0)
    IN  /\ runs[r].pc = "reading"
        /\ IF read
           THEN /\ state' = WithProgress(state, afterPDFs, "Calculando...")
                /\ runs' = [runs EXCEPT ![r].pc = "executing", ![r].currentStep = afterPDFs]
           ELSE Caught(r)
        /\ UNCHANGED <<abortControllerRef, controllers>>
        /\ UNCHANGED <<rateService, firstRun, useCaseVars>>
        /\ UNCHANGED <<ledgerVars, runVars, bcbVars>>

\* The onProgress callback of the PDFOperationRepository, while the use case
\* loads from it.
PDFProgress(r) ==
    /\ runs[r].pc = "executing"
    /\ runs[r].params.pdfs
    /\ state' = WithProgress(state, runs[r].currentStep, "Processando PDFs")
    /\ UNCHANGED <<abortControllerRef, controllers, runs>>
    /\ UNCHANGED <<rateService, firstRun, useCaseVars>>
    /\ UNCHANGED <<ledgerVars, runVars, bcbVars>>

\* useCase.execute settles: the response is published, or the catch.
UseCaseSettles(r, resolved) ==
    /\ runs[r].pc = "executing"
    /\ IF resolved
       THEN IF signalAborted(r)
            THEN /\ runs' = [runs EXCEPT ![r].pc = "dropped"]
                 /\ UNCHANGED state
            ELSE /\ runs' = [runs EXCEPT ![r].pc = "published"]
                 /\ state' = [status |-> "success", response |-> ResponseOf(r),
                              snapshots |-> ResponseOf(r).snapshots, error |-> Null,
                              progress |-> Null]
       ELSE Caught(r)
    /\ UNCHANGED <<abortControllerRef, controllers>>
    /\ UNCHANGED <<rateService, firstRun, useCaseVars>>
    /\ UNCHANGED <<ledgerVars, runVars, bcbVars>>

cancelProcessing ==
    /\ controllers' = AbortCurrent
    /\ abortControllerRef' = Null
    /\ state' = initialState
    /\ UNCHANGED runs
    /\ UNCHANGED <<rateService, firstRun, useCaseVars>>
    /\ UNCHANGED <<ledgerVars, runVars, bcbVars>>

reset ==
    /\ state' = initialState
    /\ UNCHANGED <<abortControllerRef, controllers, runs>>
    /\ UNCHANGED <<rateService, firstRun, useCaseVars>>
    /\ UNCHANGED <<ledgerVars, runVars, bcbVars>>

NextHook ==
    \/ \E r \in 1..MaxRuns, params \in RunParams : processPortfolio(r, params)
    \/ \E r \in 1..MaxRuns, read \in BOOLEAN : FileRead(r, read)
    \/ \E r \in 1..MaxRuns : PDFProgress(r)
    \/ \E r \in 1..MaxRuns, resolved \in BOOLEAN : UseCaseSettles(r, resolved)
    \/ cancelProcessing
    \/ reset

InitHook ==
    /\ LedgerIdle
    /\ RunIdle
    /\ CallerIdle
    /\ BCBIdle

SpecHook == InitHook /\ [][NextHook]_vars

\* ------------------------------------------------------------------------
\* BCBExchangeRateService

MAX_RETRIES == 3
CACHE_TTL_MS == 24 * 60 * 60 * 1000
MAX_CACHE_SIZE == 1000

\* `${fromCurrency}-${toCurrency}-${date.toISOString().split('T')[0]}`
cacheKey(fromCurrency, toCurrency, date) == <<fromCurrency, toCurrency, getTime(date)>>

\* this.cache.get(key): the entry, or Null (undefined).
CacheGet(entries, key) ==
    IF \E i \in 1..Len(entries) : entries[i].key = key
    THEN entries[CHOOSE i \in 1..Len(entries) : entries[i].key = key].entry
    ELSE Null

\* this.cache.set(key, entry): a key already held keeps its place.
CacheSet(entries, key, entry) ==
    IF \E i \in 1..Len(entries) : entries[i].key = key
    THEN [i \in 1..Len(entries) |->
             IF entries[i].key = key THEN [key |-> key, entry |-> entry] ELSE entries[i]]
    ELSE Append(entries, [key |-> key, entry |-> entry])

\* .sort(([, a], [, b]) => a.timestamp - b.timestamp), a stable sort: the
\* entries of the oldest timestamp in the order they are in, then those of
\* the next timestamp, and so on.
RECURSIVE SortEntries(_, _)
SortEntries(entries, timestamps) ==
    IF timestamps = {}
    THEN <<>>
    ELSE LET oldest == CHOOSE t \in timestamps : \A u \in timestamps : t <= u
         IN  SelectSeq(entries, LAMBDA e : e.entry.timestamp = oldest)
                 \o SortEntries(entries, timestamps \ {oldest})

\* evictOldestEntries(): the oldest 20% of the entries are deleted.
evictOldestEntries(entries) ==
    LET entriesToRemove == (Len(entries) * 2) \div 10
        sortedEntries ==
            SortEntries(entries, {entries[i].entry.timestamp : i \in 1..Len(entries)})
        removed == {sortedEntries[i].key : i \in 1..entriesToRemove}
    IN  SelectSeq(entries, LAMBDA e : e.key \notin removed)

\* The quotations of the API, as (cotacaoCompra, cotacaoVenda).
Quotations == {<<RInt(5), RInt(6)>>}

\* The bodies of an ok response: a quotation, no quotation (a day without
\* PTAX), and a body that is not JSON.
Bodies ==
    {[value |-> <<[cotacaoCompra |-> q[1], cotacaoVenda |-> q[2]]>>] : q \in Quotations}
        \cup {[value |-> <<>>], [invalid |-> TRUE]}

\* What one fetch() comes to: a response, a rejection (network error) or the
\* abort of the timeout.
FetchOutcomes ==
    {[kind |-> "response", ok |-> TRUE, status |-> 200, body |-> b] : b \in Bodies}
        \cup {[kind |-> "response", ok |-> FALSE, status |-> 404, body |-> Null],
              [kind |-> "response", ok |-> FALSE, status |-> 500, body |-> Null],
              [kind |-> "rejected", name |-> "TypeError"],
              [kind |-> "rejected", name |-> "AbortError"]}

\* fetchWithRetry hands the response back: response.ok || response.status === 404
Accepted(outcome) ==
    outcome.kind = "response" /\ (outcome.ok \/ outcome.status = 404)

\* error instanceof Error && error.name === 'AbortError': no retry.
Aborted(outcome) == outcome.kind = "rejected" /\ outcome.name = "AbortError"

\* fetchRateFromBCB past fetchWithRetry: null unless the response is ok and
\* its value holds a quotation; the first quotation becomes the rate.
fetchRateFromBCB(date, response) ==
    IF ~response.ok
    THEN Return(Null)
    ELSE IF "invalid" \in DOMAIN response.body
    THEN Throw([name |-> "FailedToFetch"])
    ELSE IF Len(response.body.value) > 0
    THEN LET rateData == response.body.value[1]
         IN  IF ExchangeRateThrows(rateData.cotacaoCompra, rateData.cotacaoVenda)
             THEN Throw([name |-> "FailedToFetch"])
             ELSE Return(ExchangeRate("USD", "BRL", date,
                                      rateData.cotacaoCompra, rateData.cotacaoVenda))
    ELSE Return(Null)

\* The arguments of the getRate calls: two days, the pair the service
\* supports and one it does not.
BCBDates == {Date(14), Date(15)}
FromCurrencies == {"USD", "EUR"}

\* The instants Date.now() is read at: the start, one TTL later and the
\* millisecond after that.
ClockInstants == {0, CACHE_TTL_MS, CACHE_TTL_MS + 1}

InitBCB ==
    /\ LedgerIdle
    /\ RunIdle
    /\ CallerIdle
    /\ BCBIdle

\* Date.now() - cached.timestamp < this.CACHE_TTL_MS
NeverExpired(cached, instant) == TRUE
NotExpired(cached, instant) == instant - cached.timestamp < CACHE_TTL_MS

\* getRate up to its first await: the check of the pair, the cache, the
\* eviction and the first fetch() of fetchWithRetry.  The calls are numbered
\* in the order they are made.
getRate(c, fromCurrency, toCurrency, date) ==
    LET cached == CacheGet(cache, cacheKey(fromCurrency, toCurrency, date))
        made == [calls EXCEPT ![c].fromCurrency = fromCurrency,
                              ![c].toCurrency = toCurrency, ![c].date = date]
    IN  /\ calls[c].pc = "idle"
        /\ \A earlier \in 1..(c - 1) : calls[earlier].pc # "idle"
        /\ IF fromCurrency # "USD" \/ toCurrency # "BRL"
           THEN /\ calls' = [made EXCEPT ![c].pc = "done",
                                         ![c].result = Throw([name |-> "UnsupportedCurrencyPair"])]
                /\ UNCHANGED <<cache, fetches>>
           ELSE IF cached # Null /\ NotExpired(cached, now)
           THEN /\ calls' = [made EXCEPT ![c].pc = "done", ![c].result = Return(cached.rate)]
                /\ UNCHANGED <<cache, fetches>>
           ELSE /\ cache' = IF Len(cache) >= MAX_CACHE_SIZE
                            THEN evictOldestEntries(cache)
                            ELSE cache
                /\ calls' = [made EXCEPT ![c].pc = "fetch", ![c].attempt = 0]
                /\ fetches' = fetches + 1
        /\ UNCHANGED now
        /\ UNCHANGED <<ledgerVars, runVars, callerVars>>

\* The awaited fetch() of an attempt settles.  A response that is ok or 404
\* goes through fetchRateFromBCB and the rate is cached; an abort, or an error
\* on the last attempt, makes fetchWithRetry throw and null is cached; any
\* other error is followed by the backoff.
FetchSettles(c, outcome) ==
    LET key == cacheKey(calls[c].fromCurrency, calls[c].toCurrency, calls[c].date)
        got == [calls EXCEPT ![c].response = outcome]
        fetched == fetchRateFromBCB(calls[c].date, outcome)
        rate == IF Accepted(outcome) /\ fetched.ok THEN fetched.value ELSE Null
    IN  /\ calls[c].pc = "fetch"
        /\ IF Accepted(outcome)
              \/ Aborted(outcome)
              \/ calls[c].attempt = MAX_RETRIES - 1
           THEN /\ cache' = CacheSet(cache, key, [rate |-> rate, timestamp |-> now])
                /\ calls' = [got EXCEPT ![c].pc = "done", ![c].result = Return(rate)]
           ELSE /\ calls' = [got EXCEPT ![c].pc = "backoff"]
                /\ UNCHANGED cache
        /\ UNCHANGED <<now, fetches>>
        /\ UNCHANGED <<ledgerVars, runVars, callerVars>>

\* The backoff timer fires: the next attempt's fetch().
BackoffElapsed(c) ==
    /\ calls[c].pc = "backoff"
    /\ calls' = [calls EXCEPT ![c].pc = "fetch", ![c].attempt = @ + 1]
    /\ fetches' = fetches + 1
    /\ UNCHANGED <<cache, now>>
    /\ UNCHANGED <<ledgerVars, runVars, callerVars>>

\* Time passes.
Tick(instant) ==
    /\ instant > now
    /\ now' = instant
    /\ UNCHANGED <<cache, calls, fetches>>
    /\ UNCHANGED <<ledgerVars, runVars, callerVars>>

NextBCB ==
    \/ \E c \in CallIds, fromCurrency \in FromCurrencies, date \in BCBDates :
           getRate(c, fromCurrency, "BRL", date)
    \/ \E c \in CallIds, outcome \in FetchOutcomes : FetchSettles(c, outcome)
    \/ \E c \in CallIds : BackoffElapsed(c)
    \/ \E instant \in ClockInstants : Tick(instant)

SpecBCB == InitBCB /\ [][NextBCB]_vars

\* A service one entry short of a full cache: MAX_CACHE_SIZE - 1 calls, each
\* for a day of its own without a quotation, were made and answered at
\* instant 0 with one fetch each.
FilledCache ==
    [i \in 1..(MAX_CACHE_SIZE - 1) |->
        [key |-> cacheKey("USD", "BRL", Date(1000 + i)),
         entry |-> [rate |-> Null, timestamp |-> 0]]]

InitBCBFilled ==
    /\ LedgerIdle
    /\ RunIdle
    /\ CallerIdle
    /\ cache = FilledCache
    /\ now = 0
    /\ calls = [c \in CallIds |-> NotMade]
    /\ fetches = MAX_CACHE_SIZE - 1

SpecBCBFilled == InitBCBFilled /\ [][NextBCB]_vars

\* ------------------------------------------------------------------------
\* Properties of the ledger, of every state of Spec

\* The position's BRL average as the claims state it.
AccumulatedAverageBrl(pos) ==
    IF pos.quantity.value > 0
    THEN RDiv(pos.totalCostBrl.amount, RInt(pos.quantity.value))
    ELSE RInt(0)

LastIs(type) == last.op # Null /\ last.op.type = type
LastSucceeded(type) == LastIs(type) /\ last.outcome.ok
LastRateComplete == last.rate.bidRate # Null /\ last.rate.askRate # Null

\* C1: in every position the ledger holds, the BRL average price the getter
\* returns, and the value it has memoized once read, is totalCostBrl /
\* quantity when quantity > 0 and 0 when quantity = 0.
C1_AveragePriceBrlIsAccumulated ==
    /\ averagePriceBrl(position).amount = AccumulatedAverageBrl(position)
    /\ position._averagePriceBrl # Null =>
           position._averagePriceBrl.amount = AccumulatedAverageBrl(position)

\* C1 witness: after a vesting, the average that was read differs from the
\* USD average multiplied by the bid of that vesting.
C1_Witness ==
    /\ LastSucceeded("vesting")
    /\ position._averagePriceBrl # Null
    /\ position._averagePriceBrl.amount #
           RMul(position.averagePriceUsd.amount, last.rate.bidRate)

\* C2: a successful trade of q shares at price p reports saleRevenueBrl =
\* q * p * ask, costBasisBrl = q * (C / Q) and profitLossBrl = saleRevenueBrl
\* - costBasisBrl, with Q and C the quantity and BRL cost before the trade.
C2_TradeFinancials ==
    LastSucceeded("trade") =>
        LET q == RInt(last.op.quantity.value)
            p == last.op.pricePerShareUsd.amount
            Q == RInt(last.before.quantity.value)
            C == last.before.totalCostBrl.amount
            financials == last.outcome.value.metadata.tradeFinancials
        IN  /\ financials.saleRevenueBrl.amount = RMul(RMul(q, p), last.rate.askRate)
            /\ financials.costBasisBrl.amount = RMul(q, RDiv(C, Q))
            /\ financials.profitLossBrl.amount =
                   RSub(financials.saleRevenueBrl.amount, financials.costBasisBrl.amount)

\* C2 witness: a successful trade whose cost basis differs from q times the
\* USD average times the bid.
C2_Witness ==
    /\ LastSucceeded("trade")
    /\ last.outcome.value.metadata.tradeFinancials.costBasisBrl.amount #
           RMul(RInt(last.op.quantity.value),
                RMul(last.before.averagePriceUsd.amount, last.rate.bidRate))

\* C3: a vesting of q shares at price p with a rate having both sides returns
\* quantity Q + q, totalCostUsd Cusd + q * p, totalCostBrl Cbrl + q * p * bid,
\* averagePriceUsd (Cusd + q * p) / (Q + q), the realized gain unchanged, and
\* metadata without trade financials.
C3_VestingResult ==
    (LastIs("vesting") /\ LastRateComplete) =>
        LET q == last.op.quantity.value
            cost == RMul(RInt(q), last.op.pricePerShareUsd.amount)
            before == last.before
        IN  /\ last.outcome.ok
            /\ LET new == last.outcome.value.position
               IN  /\ new.quantity.value = before.quantity.value + q
                   /\ new.totalCostUsd.amount = RAdd(before.totalCostUsd.amount, cost)
                   /\ new.totalCostBrl.amount =
                          RAdd(before.totalCostBrl.amount, RMul(cost, last.rate.bidRate))
                   /\ new.averagePriceUsd.amount =
                          RDiv(RAdd(before.totalCostUsd.amount, cost),
                               RInt(before.quantity.value + q))
                   /\ new.grossProfitBrl = before.grossProfitBrl
            /\ last.outcome.value.metadata.tradeFinancials = Null

\* C3 witness: a vesting on a position that holds shares and a realized loss,
\* at a rate whose sides differ.
C3_Witness ==
    /\ LastSucceeded("vesting")
    /\ last.before.quantity.value > 0
    /\ last.before.grossProfitBrl.amount # RInt(0)
    /\ last.rate.bidRate # last.rate.askRate

\* C4: a trade of q <= Q shares with a rate having both sides returns quantity
\* Q - q, totalCostUsd Cusd * (1 - q/Q), totalCostBrl Cbrl * (1 - q/Q),
\* averagePriceUsd unchanged when Q - q > 0 and 0 when Q - q = 0, and the
\* realized gain plus (saleRevenueBrl - costBasisBrl) of this trade.
C4_TradeResult ==
    (LastIs("trade") /\ LastRateComplete
        /\ last.op.quantity.value <= last.before.quantity.value) =>
        LET q == last.op.quantity.value
            before == last.before
            Q == before.quantity.value
            kept == RSub(RInt(1), RDiv(RInt(q), RInt(Q)))
        IN  /\ last.outcome.ok
            /\ LET new == last.outcome.value.position
                   financials == last.outcome.value.metadata.tradeFinancials
               IN  /\ new.quantity.value = Q - q
                   /\ new.totalCostUsd.amount = RMul(before.totalCostUsd.amount, kept)
                   /\ new.totalCostBrl.amount = RMul(before.totalCostBrl.amount, kept)
                   /\ new.averagePriceUsd.amount =
                          (IF Q - q > 0 THEN before.averagePriceUsd.amount ELSE RInt(0))
                   /\ new.grossProfitBrl.amount =
                          RAdd(before.grossProfitBrl.amount,
                               RSub(financials.saleRevenueBrl.amount,
                                    financials.costBasisBrl.amount))

\* C4 witness: a partial sale from a position with a realized loss, made at a
\* profit or loss of its own.
C4_Witness ==
    /\ LastSucceeded("trade")
    /\ last.op.quantity.value < last.before.quantity.value
    /\ last.before.grossProfitBrl.amount # RInt(0)
    /\ last.outcome.value.metadata.tradeFinancials.profitLossBrl.amount # RInt(0)

\* C5: a trade that sells all held shares, at a rate having both sides,
\* returns a position with quantity 0, totalCostUsd 0, totalCostBrl 0,
\* averagePriceUsd 0 and a derived averagePriceBrl of 0, whatever the costs
\* and the rate values were.
C5_FullLiquidation ==
    (LastIs("trade") /\ LastRateComplete
        /\ last.op.quantity.value = last.before.quantity.value) =>
        /\ last.outcome.ok
        /\ LET new == last.outcome.value.position
           IN  /\ new.quantity.value = 0
               /\ new.totalCostUsd.amount = RInt(0)
               /\ new.totalCostBrl.amount = RInt(0)
               /\ new.averagePriceUsd.amount = RInt(0)
               /\ averagePriceBrl(new).amount = RInt(0)

\* C5 witness: all shares of a position with costs and a USD average sold.
C5_Witness ==
    /\ LastSucceeded("trade")
    /\ last.op.quantity.value = last.before.quantity.value
    /\ last.before.totalCostBrl.amount # RInt(0)
    /\ last.before.averagePriceUsd.amount # RInt(0)

\* C6: the position's quantity is never negative, and a trade asking for more
\* shares than are held returns no position: the position stays as it was.
C6_QuantityNonNegative ==
    /\ position.quantity.value >= 0
    /\ (LastIs("trade") /\ last.op.quantity.value > last.before.quantity.value) =>
           /\ ~last.outcome.ok
           /\ PublicFields(position) = PublicFields(last.before)

\* C6 witness: a sale of more shares than the held ones, from a position
\* that holds some, has failed.
C6_Witness ==
    /\ LastIs("trade")
    /\ last.before.quantity.value > 0
    /\ last.op.quantity.value > last.before.quantity.value
    /\ ~last.outcome.ok

\* C7: a trade whose quantity exceeds the position's quantity (every trade
\* against an empty position is one) fails with the insufficient-shares error
\* carrying the requested and the available quantity.
C7_InsufficientShares ==
    (LastIs("trade") /\ last.op.quantity.value > last.before.quantity.value) =>
        /\ ~last.outcome.ok
        /\ last.outcome.error.name = "InsufficientShares"
        /\ last.outcome.error.requested = last.op.quantity.value
        /\ last.outcome.error.available = last.before.quantity.value

\* C7 witness: a trade against an empty position has failed.
C7_Witness ==
    /\ LastIs("trade")
    /\ last.before.quantity.value = 0
    /\ ~last.outcome.ok

LastRateSideMissing == last.rate.bidRate = Null \/ last.rate.askRate = Null

\* C8 as stated: every vesting and every trade executed with a rate that
\* lacks a side fails with the missing-exchange-rate error.
C8_AsStated ==
    (last.op # Null /\ LastRateSideMissing) =>
        /\ ~last.outcome.ok
        /\ last.outcome.error.name = "MissingExchangeRate"

\* C8 amended: a vesting, or a trade of no more shares than are held, executed
\* with a rate that lacks a side fails with the missing-exchange-rate error; a
\* trade of more shares than are held fails with the insufficient-shares
\* error, whatever the rate.  No result is returned in either case.
C8_MissingRateSide ==
    (last.op # Null /\ LastRateSideMissing) =>
        /\ ~last.outcome.ok
        /\ last.outcome.error.name =
               (IF last.op.type = "trade"
                       /\ last.op.quantity.value > last.before.quantity.value
                THEN "InsufficientShares"
                ELSE "MissingExchangeRate")

\* C8 witness: a vesting has failed on a rate that has the bid side, the one
\* it converts with, and lacks the ask side.
C8_Witness ==
    /\ LastIs("vesting")
    /\ last.rate.bidRate # Null
    /\ last.rate.askRate = Null
    /\ ~last.outcome.ok

\* ------------------------------------------------------------------------
\* Properties of the orchestrator, of every state of SpecRun

\* The call has returned its two arrays to the caller.
Succeeded == pc = "done" /\ returned # Null /\ "positions" \in DOMAIN returned

\* The call has failed: the caller got an error.
Failed == pc = "done" /\ returned # Null /\ "error" \in DOMAIN returned

\* C9: a call with an empty operation list returns empty positions and empty
\* results, without an error and without a call of getRate, with and without
\* an initial position.
C9_EmptyRun ==
    operations = <<>> =>
        /\ ~lookupIssued
        /\ pending = Null
        /\ pc \in {"idle", "done"}
        /\ pc = "done" => returned = [positions |-> <<>>, results |-> <<>>]

\* C9 witness: a call with an empty list and an initial position has returned.
C9_Witness ==
    /\ operations = <<>>
    /\ initialPosition # Null
    /\ pc = "done"

\* How often an operation occurs in a list.
Occurrences(op, ops) == Cardinality({i \in 1..Len(ops) : ops[i] = op})

\* The operations in ascending date order, as the caller reads them off the
\* operation list: a rearrangement of it with no date before an earlier one.
InDateOrder(sorted) ==
    /\ Len(sorted) = Len(operations)
    /\ \A op \in RunOperations : Occurrences(op, sorted) = Occurrences(op, operations)
    /\ \A i \in 1..Len(sorted) : \A j \in 1..Len(sorted) :
           i < j => getTime(sorted[i].date) <= getTime(sorted[j].date)

\* The position the run starts from.
StartingPosition ==
    IF initialPosition = Null
    THEN createEmpty(sortedOperations[1].date)
    ELSE initialPosition

\* The position before the i-th operation: positions[i-1], or the starting one.
Previous(i) == IF i = 1 THEN StartingPosition ELSE returned.positions[i - 1]

\* results[i] is what the i-th operation returns for the position it was
\* handed and the rate its metadata records.
IsResultOf(i) ==
    LET result == returned.results[i]
        rate == ExchangeRate("USD", "BRL", Null,
                             result.metadata.exchangeRates.ptaxBid,
                             result.metadata.exchangeRates.ptaxAsk)
        outcome == Execute(sortedOperations[i], executedOn[i], rate)
    IN  /\ outcome.ok
        /\ result.metadata = outcome.value.metadata
        /\ PublicFields(result.position) = PublicFields(outcome.value.position)

\* Lengths, order and alignment of the two arrays of a successful run.
AlignedWithSortedOperations ==
    /\ Len(returned.positions) = Len(operations)
    /\ Len(returned.results) = Len(operations)
    /\ InDateOrder(sortedOperations)
    /\ \A i \in 1..Len(operations) :
           /\ IsResultOf(i)
           /\ returned.positions[i] = returned.results[i].position

\* C10 as stated: in a successful run the arrays are aligned with the sorted
\* operations, and operation i was executed against positions[i-1] (the
\* starting position for the first).
C10_AsStated ==
    Succeeded =>
        /\ AlignedWithSortedOperations
        /\ \A i \in 1..Len(operations) :
               PublicFields(executedOn[i]) = PublicFields(Previous(i))

\* The realized gain an operation finds: 0 when its calendar year is greater
\* than the year of the position before it, else that position's gain.
GainCarried(op, pos) ==
    IF getFullYear(op.date) > getFullYear(pos.lastUpdated)
    THEN ProfitLoss(RInt(0), "BRL")
    ELSE pos.grossProfitBrl

\* C10 amended: in a successful run on n operations, positions and results
\* have length n, results[i] is the result of the i-th operation in ascending
\* date order, positions[i] = results[i].position, and operation i was
\* executed against positions[i-1] (the starting position for the first) with
\* its realized gain replaced by 0 when the operation's calendar year is
\* greater than that position's year.
C10_RunAligned ==
    Succeeded =>
        /\ AlignedWithSortedOperations
        /\ \A i \in 1..Len(operations) :
               PublicFields(executedOn[i]) =
                   [PublicFields(Previous(i)) EXCEPT
                       !.grossProfitBrl = GainCarried(sortedOperations[i], Previous(i))]

\* C10 witness: a successful run on two operations given latest first, the
\* second of which, in a new year, found a realized gain other than the one
\* the first had left.
C10_Witness ==
    /\ Succeeded
    /\ Len(operations) = 2
    /\ getTime(operations[1].date) > getTime(operations[2].date)
    /\ executedOn[2].grossProfitBrl # returned.positions[1].grossProfitBrl

\* ------------------------------------------------------------------------
\* Properties of two calls on one service, of every state of SpecTwice

\* The second call has ended.
SecondRunDone == firstRun # Null /\ pc = "done"

\* The operations of a list dated on a given day, in the order of the list.
OnDay(ops, day) == SelectSeq(ops, LAMBDA op : getTime(op.date) = day)

\* Two lists hold the operations of every day in the same order.
SameOrderWithinDays(first, second) ==
    \A i \in 1..Len(first) :
        OnDay(first, getTime(first[i].date)) = OnDay(second, getTime(first[i].date))

\* C11 as stated: a run on any rearrangement of a list, from the same initial
\* position and on the same service, returns what the run on the list
\* returned: the same positions and results, or the same error.
C11_AsStated ==
    SecondRunDone => returned = firstRun.returned

\* C11 amended: a run on a rearrangement of a list that keeps the order of the
\* operations sharing an operation date (so every rearrangement of a list
\* whose operation dates all differ), from the same initial position and on
\* the same service, returns what the run on the list returned.
C11_OrderIndependence ==
    (SecondRunDone /\ operations # firstRun.operations
        /\ SameOrderWithinDays(firstRun.operations, operations)) =>
        returned = firstRun.returned

\* C11 witness: two operations of different days were run in both orders and
\* both runs returned positions.
C11_Witness ==
    /\ SecondRunDone
    /\ Len(operations) = 2
    /\ operations # firstRun.operations
    /\ SameOrderWithinDays(firstRun.operations, operations)
    /\ Succeeded
    /\ Len(returned.positions) = 2

\* C12: a second run on the same list, from the same initial position and
\* with the same answers of the service, returns the positions and results
\* (or the error) of the first run.
C12_Determinism ==
    (SecondRunDone /\ operations = firstRun.operations) =>
        returned = firstRun.returned

\* C12 witness: a list of two operations ending in a trade was run twice from
\* a supplied initial position, and returned positions.
C12_Witness ==
    /\ SecondRunDone
    /\ operations = firstRun.operations
    /\ initialPosition # Null
    /\ Succeeded
    /\ Len(returned.positions) = 2
    /\ sortedOperations[2].type = "trade"

\* The positions and results a call returned, by their public fields (the
\* memo of averagePriceBrl is private to a position).
PublicOutput(output) ==
    [positions |-> [i \in 1..Len(output.positions) |-> PublicFields(output.positions[i])],
     results |-> [i \in 1..Len(output.results) |->
                     [position |-> PublicFields(output.results[i].position),
                      metadata |-> output.results[i].metadata]]]

\* C23: when a run on a list returned positions and results, the run on only
\* the k earliest operations of the list, from the same initial position and
\* on the same service, returns the first k of those positions and results;
\* and when the run on the k earliest failed, the run on the list failed with
\* the same error.  Of every state of SpecEarliest.
C23_PrefixClosed ==
    (SecondRunDone /\ operations = SubSeq(SortByDate(firstRun.operations), 1, Len(operations))) =>
        /\ "positions" \in DOMAIN firstRun.returned =>
               /\ Succeeded
               /\ PublicOutput(returned).positions =
                      SubSeq(PublicOutput(firstRun.returned).positions, 1, Len(operations))
               /\ PublicOutput(returned).results =
                      SubSeq(PublicOutput(firstRun.returned).results, 1, Len(operations))
        /\ Failed => firstRun.returned = returned

\* C23 witness: a run of two operations, the later one a trade, returned two
\* positions and the run on the earlier operation alone returned the first.
C23_Witness ==
    /\ SecondRunDone
    /\ Len(firstRun.operations) = 2
    /\ Len(operations) = 1
    /\ "positions" \in DOMAIN firstRun.returned
    /\ Len(firstRun.returned.positions) = 2
    /\ firstRun.returned.results[2].metadata.tradeFinancials # Null
    /\ Succeeded
    /\ PublicOutput(returned).positions = <<PublicFields(firstRun.returned.positions[1])>>

\* ------------------------------------------------------------------------
\* Properties of a run on a service, of every state of SpecService

\* The running position as the i-th iteration finds it: the position pushed
\* by the iteration before, or the starting position.
Running(i) == IF i = 1 THEN StartingPosition ELSE positions[i - 1]

\* The i-th operation's calendar year is greater than the running position's.
YearExceeded(i) ==
    getFullYear(sortedOperations[i].date) > getFullYear(Running(i).lastUpdated)

\* The call is inside the iteration of sortedOperations[index], past its reset.
InIteration == pc \in {"lookup", "await", "execute"}

\* C13: from the head of an operation's iteration until it executes, the
\* realized gain of currentPosition is 0 when the operation's calendar year
\* is greater than the year of the running position's lastUpdated, and the
\* running position's gain otherwise; for the first operation of a run
\* without an initial position the year is never greater.
C13_YearBoundaryReset ==
    InIteration =>
        /\ currentPosition.grossProfitBrl =
               (IF YearExceeded(index)
                THEN ProfitLoss(RInt(0), "BRL")
                ELSE Running(index).grossProfitBrl)
        /\ (index = 1 /\ initialPosition = Null) => ~YearExceeded(index)

\* C13 witness: in a run without an initial position, an operation of 2024 is
\* about to execute on a gain of 0 where the running position has a gain.
C13_Witness ==
    /\ pc = "execute"
    /\ initialPosition = Null
    /\ index > 1
    /\ YearExceeded(index)
    /\ Running(index).grossProfitBrl.amount # RInt(0)
    /\ currentPosition.grossProfitBrl.amount = RInt(0)

\* C14: the position an operation of a new year is executed on has the
\* quantity, totalCostUsd, totalCostBrl, averagePriceUsd and lastUpdated of
\* the running position before the reset, and a realized gain of 0.
C14_ResetFrame ==
    \A i \in 1..Len(executedOn) :
        YearExceeded(i) =>
            /\ executedOn[i].quantity = Running(i).quantity
            /\ executedOn[i].totalCostUsd = Running(i).totalCostUsd
            /\ executedOn[i].totalCostBrl = Running(i).totalCostBrl
            /\ executedOn[i].averagePriceUsd = Running(i).averagePriceUsd
            /\ executedOn[i].lastUpdated = Running(i).lastUpdated
            /\ executedOn[i].grossProfitBrl = ProfitLoss(RInt(0), "BRL")

\* C14 witness: an operation of a new year was executed on the reset of a
\* position that holds shares, costs and a realized gain.
C14_Witness ==
    \E i \in 1..Len(executedOn) :
        /\ YearExceeded(i)
        /\ Running(i).quantity.value > 0
        /\ Running(i).totalCostBrl.amount # RInt(0)
        /\ Running(i).averagePriceUsd.amount # RInt(0)
        /\ Running(i).grossProfitBrl.amount # RInt(0)

\* The profit/loss of the trades among the first j operations whose operation
\* date is in the given calendar year, summed.
RECURSIVE ProfitLossOfYear(_, _)
ProfitLossOfYear(j, year) ==
    IF j = 0
    THEN RInt(0)
    ELSE IF sortedOperations[j].type = "trade"
            /\ getFullYear(sortedOperations[j].date) = year
         THEN RAdd(ProfitLossOfYear(j - 1, year),
                   results[j].metadata.tradeFinancials.profitLossBrl.amount)
         ELSE ProfitLossOfYear(j - 1, year)

\* C15: in a run without an initial position, the realized gain of
\* positions[i] is the sum of the profit/loss of the trades among operations
\* 0..i whose operation date is in the calendar year of operation i.
C15_GainOfTheYear ==
    initialPosition = Null =>
        \A i \in 1..Len(positions) :
            positions[i].grossProfitBrl.amount =
                ProfitLossOfYear(i, getFullYear(sortedOperations[i].date))

\* C15 witness: a run without an initial position made a trade in 2023 at a
\* profit or loss and then an operation in 2024; the position of the latter
\* does not carry the gain of 2023.
C15_Witness ==
    /\ initialPosition = Null
    /\ Len(positions) = 3
    /\ sortedOperations[2].type = "trade"
    /\ getFullYear(sortedOperations[2].date) = 2023
    /\ getFullYear(sortedOperations[3].date) = 2024
    /\ positions[2].grossProfitBrl.amount # RInt(0)
    /\ positions[3].grossProfitBrl.amount # positions[2].grossProfitBrl.amount

\* The day an operation's conversion is priced on: its settlement date, or
\* its operation date when it was given none.
SettlementDay(op) ==
    IF op._settlementDate = Null THEN op.date.time ELSE op._settlementDate.time

\* The service has a rate for the day `days` days before the settlement.
Quoted(op, days) == rateService[SettlementDay(op) - days] # Null

\* No rate on the settlement day nor on any of the 7 days before it.
NoneQuoted(op) == \A days \in 0..7 : ~Quoted(op, days)

\* The first of the offsets 0, 1, ..., 7 with a rate.
FirstQuoted(op) ==
    CHOOSE days \in 0..7 : Quoted(op, days) /\ \A before \in 0..(days - 1) : ~Quoted(op, before)

\* The call has been rejected with the rate-not-found error.
RateNotFound == Failed /\ returned.error.name = "RateNotFound"

\* C16: the dates asked of getRate for an operation are its settlement date
\* minus 0, 1, 2, ... days in that order, each after a null answer for the one
\* before; the operation is executed with the rate of the first of the
\* offsets 0..7 that has one, which its metadata records; and the run fails
\* for want of a rate only if none of the offsets 0..7 has one.
C16_RateFallback ==
    /\ InIteration =>
           LET op == sortedOperations[index]
           IN  /\ \A k \in 1..Len(queried) : queried[k] = Date(SettlementDay(op) - (k - 1))
               /\ \A k \in 1..(Len(queried) - 1) : ~Quoted(op, k - 1)
               /\ pc = "execute" =>
                      /\ Len(queried) = FirstQuoted(op) + 1
                      /\ exchangeRate = rateService[SettlementDay(op) - FirstQuoted(op)]
    /\ \A i \in 1..Len(results) :
           LET rate == rateService[SettlementDay(sortedOperations[i])
                                       - FirstQuoted(sortedOperations[i])]
           IN  /\ results[i].metadata.exchangeRates.ptaxBid = rate.bidRate
               /\ results[i].metadata.exchangeRates.ptaxAsk = rate.askRate
    /\ RateNotFound => NoneQuoted(sortedOperations[index])

\* C16 witness: an operation was executed with a rate found 7 days before its
\* settlement date, after 8 lookups.
C16_Witness ==
    /\ pc = "loop"
    /\ index > 1
    /\ Len(queried) = 8
    /\ FirstQuoted(sortedOperations[index - 1]) = 7
    /\ Len(results) = index - 1

\* C17: when the service has no rate for any of the offsets 0..7 of an
\* operation, the run ends with the rate-not-found error after exactly 8
\* lookups for it, the operation is not executed, and no lookup ever asks
\* for a date more than 7 days before a settlement date.
C17_RateNotFound ==
    /\ InIteration =>
           /\ Len(queried) <= 8
           /\ \A k \in 1..Len(queried) :
                  queried[k].time >= SettlementDay(sortedOperations[index]) - 7
           /\ NoneQuoted(sortedOperations[index]) => pc # "execute"
    /\ (pc = "done" /\ index <= Len(sortedOperations)
            /\ NoneQuoted(sortedOperations[index])) =>
           /\ RateNotFound
           /\ Len(queried) = 8
           /\ \A k \in 1..8 :
                  queried[k] = Date(SettlementDay(sortedOperations[index]) - (k - 1))
           /\ Len(executedOn) = index - 1
           /\ Len(positions) = index - 1

\* C17 witness: the second operation of a run found no rate and the run has
\* failed.
C17_Witness ==
    /\ RateNotFound
    /\ index = 2
    /\ NoneQuoted(sortedOperations[index])

\* The errors an operation's iteration ends a run with.
RunErrors == {"Validation", "InsufficientShares", "MissingExchangeRate", "RateNotFound"}

\* C18: when the run fails at the k-th operation in sorted order, the caller
\* has the error and nothing else, neither positions nor results, although
\* k - 1 operations were applied; the k-th operation was not skipped and no
\* later one was looked up or executed: the call is over.
C18_RunAborts ==
    /\ Failed =>
           /\ DOMAIN returned = {"error"}
           /\ returned.error.name \in RunErrors
           /\ index <= Len(sortedOperations)
           /\ Len(positions) = index - 1
           /\ Len(results) = index - 1
           /\ Len(executedOn) <= index
           /\ inFlight = 0
           /\ ~ENABLED NextService
    /\ Succeeded => Len(returned.positions) = Len(operations)

\* C18 witness: a run on three operations has failed at the second.
C18_Witness ==
    /\ Failed
    /\ Len(sortedOperations) = 3
    /\ index = 2
    /\ Len(positions) = 1

\* C19: at most one getRate call is outstanding, and only while the call
\* awaits it; the lookups of the i-th sorted operation are issued when the
\* i - 1 operations before it have been executed and their positions pushed,
\* and the operation executes with no lookup outstanding.
C19_SequentialLookups ==
    /\ inFlight \in {0, 1}
    /\ inFlight = 1 <=> pc = "await"
    /\ inFlight = 1 <=> pending # Null
    /\ InIteration =>
           /\ Len(executedOn) = index - 1
           /\ Len(positions) = index - 1

\* C19 witness: the second lookup of the second operation is outstanding.
C19_Witness ==
    /\ pc = "await"
    /\ index = 2
    /\ Len(queried) = 2
    /\ Len(positions) = 1

\* ------------------------------------------------------------------------
\* Properties of the BCB service, of every state of SpecBCB

\* The fetch of call c was answered with a quotation.
GotQuotation(c) ==
    /\ calls[c].pc = "done"
    /\ calls[c].fromCurrency = "USD"
    /\ calls[c].toCurrency = "BRL"
    /\ calls[c].response # Null
    /\ calls[c].response.kind = "response"
    /\ calls[c].response.ok
    /\ "value" \in DOMAIN calls[c].response.body
    /\ Len(calls[c].response.body.value) > 0

\* C20: a getRate call for USD/BRL whose fetch was answered with a quotation
\* returns an ExchangeRate whose bidRate and askRate are both the
\* quotation's cotacaoVenda.
C20_AsStated ==
    \A c \in CallIds :
        GotQuotation(c) =>
            /\ calls[c].result.ok
            /\ calls[c].result.value # Null
            /\ calls[c].result.value.bidRate = calls[c].response.body.value[1].cotacaoVenda
            /\ calls[c].result.value.askRate = calls[c].response.body.value[1].cotacaoVenda


\* C21: a getRate call on the supported pair made while the cache holds an
\* entry for its key younger than CACHE_TTL_MS ends at once with the cached
\* rate (null included) and issues no fetch; made while the entry is older
\* than CACHE_TTL_MS, it issues a fetch.
CallMade(c) == calls[c].pc = "idle" /\ calls'[c].pc # "idle"

EntryAtCall(c) ==
    CacheGet(cache, cacheKey(calls'[c].fromCurrency, calls'[c].toCurrency, calls'[c].date))

C21_Step ==
    \A c \in CallIds :
        (CallMade(c) /\ calls'[c].fromCurrency = "USD" /\ EntryAtCall(c) # Null) =>
            /\ (now - EntryAtCall(c).timestamp < CACHE_TTL_MS) =>
                   /\ calls'[c].pc = "done"
                   /\ calls'[c].result = Return(EntryAtCall(c).rate)
                   /\ fetches' = fetches
            /\ (now - EntryAtCall(c).timestamp > CACHE_TTL_MS) =>
                   /\ calls'[c].pc = "fetch"
                   /\ fetches' = fetches + 1

C21_CacheTTL == [][C21_Step]_vars

\* The second call found the first call's entry and was answered from it.
C21_Witness ==
    /\ calls[1].pc = "done"
    /\ calls[1].response # Null
    /\ calls[2].pc = "done"
    /\ calls[2].response = Null
    /\ calls[2].fromCurrency = "USD"
    /\ calls[2].date = calls[1].date
    /\ calls[2].result = calls[1].result
    /\ fetches >= 1


\* ------------------------------------------------------------------------
\* Properties of ProcessPortfolioUseCase.execute, of every state of
\* SpecUseCase

\* execute has returned a response for a list that is not empty.
Responded == useCaseResponse # Null /\ useCaseResponse.ok /\ Len(operations) # 0

\* The sum of the profit/loss of the trades among the snapshots.
RECURSIVE ProfitLossOfTrades(_)
ProfitLossOfTrades(snapshots) ==
    IF snapshots = <<>>
    THEN RInt(0)
    ELSE LET financials == Head(snapshots).metadata.tradeFinancials
         IN  RAdd(IF financials = Null THEN RInt(0) ELSE financials.profitLossBrl.amount,
                  ProfitLossOfTrades(Tail(snapshots)))

\* C22: the totalReturnBrl of a response is the sum of the profit/loss in BRL
\* of the trades processed in the run (of a run that was handed no realized
\* gain from before it).
C22_AsStated ==
    (Responded /\ (initialPosition = Null \/ initialPosition.grossProfitBrl.amount = RInt(0))) =>
        useCaseResponse.value.totalReturnBrl.amount =
            ProfitLossOfTrades(useCaseResponse.value.snapshots)


\* C25: for every snapshot of a trade in a response, getOperationProfitLoss
\* returns the profit/loss the trade reported, tradeFinancials.profitLossBrl.
C25_AsStated ==
    Responded =>
        \A i \in 1..Len(useCaseResponse.value.snapshots) :
            LET snapshot == useCaseResponse.value.snapshots[i]
            IN  snapshot.metadata.tradeFinancials # Null =>
                    getOperationProfitLoss(snapshot) =
                        snapshot.metadata.tradeFinancials.profitLossBrl

\* How often the repositories from the n-th on that load without an error
\* hold an operation.
RECURSIVE OccurrencesLoaded(_, _)
OccurrencesLoaded(n, op) ==
    IF n > Len(repositories)
    THEN 0
    ELSE LET loading == JSONGetAllOperations(repositories[n])
         IN  (IF loading.ok THEN Occurrences(op, loading.value) ELSE 0)
                 + OccurrencesLoaded(n + 1, op)

\* C30: getAllOperations of the CompositeOperationRepository returns, and
\* never throws: the list it returns is ascending by operation date and holds
\* exactly the operations of the repositories that loaded without an error,
\* so none when every repository throws.
C30_CompositeNeverFails ==
    loaded # Null =>
        /\ loaded.ok
        /\ \A i, j \in 1..Len(loaded.value) :
               i < j => getTime(getDate(loaded.value[i])) <= getTime(getDate(loaded.value[j]))
        /\ \A op \in RunOperations :
               Occurrences(op, loaded.value) = OccurrencesLoaded(1, op)
        /\ \A i \in 1..Len(loaded.value) : loaded.value[i] \in RunOperations

\* C30 witness: of two repositories the second threw, and the two operations
\* of the first were returned in the order of their dates, not of the file.
C30_Witness ==
    /\ loaded # Null
    /\ Len(repositories) = 2
    /\ JSONGetAllOperations(repositories[1]).ok
    /\ ~JSONGetAllOperations(repositories[2]).ok
    /\ Len(loaded.value) = 2
    /\ loaded.value # JSONGetAllOperations(repositories[1]).value

\* ------------------------------------------------------------------------
\* Properties of the averages, of every state of Spec

\* C24: a successful trade of fewer shares than the position holds returns a
\* position with the stored averagePriceUsd and the derived BRL average,
\* totalCostBrl / quantity, of the position before the trade.
C24_PartialTradeKeepsAverages ==
    (LastSucceeded("trade") /\ last.op.quantity.value < last.before.quantity.value) =>
        /\ last.outcome.value.position.averagePriceUsd = last.before.averagePriceUsd
        /\ AccumulatedAverageBrl(last.outcome.value.position) =
               AccumulatedAverageBrl(last.before)
        /\ averagePriceBrl(last.outcome.value.position).amount =
               averagePriceBrl(last.before).amount

\* C24 witness: one share of three was sold, from a position whose BRL
\* average is not its USD average at the rate of the trade.
C24_Witness ==
    /\ LastSucceeded("trade")
    /\ last.before.quantity.value = 3
    /\ last.op.quantity.value = 1
    /\ position.quantity.value = 2
    /\ AccumulatedAverageBrl(last.before) #
           RMul(last.before.averagePriceUsd.amount, last.rate.bidRate)

\* C26: every position of the ledger that holds shares stores the USD average
\* totalCostUsd / quantity.
C26_StoredAverageUsd ==
    position.quantity.value > 0 =>
        position.averagePriceUsd.amount =
            RDiv(position.totalCostUsd.amount, RInt(position.quantity.value))

\* C26 witness: a position built from the empty one by two vestings at
\* different prices and a partial trade, with an average that is no integer.
C26_Witness ==
    /\ steps = 3
    /\ LastSucceeded("trade")
    /\ position.quantity.value > 0
    /\ position.totalCostUsd.amount.num < 2 * position.quantity.value * position.totalCostUsd.amount.den
    /\ position.averagePriceUsd.amount.den # 1


\* ------------------------------------------------------------------------
\* The BRL cost through a run, of every state of SpecService

\* The BRL cost the vestings among the first j results added: q * p * bid.
RECURSIVE VestingCostsBrl(_)
VestingCostsBrl(j) ==
    IF j = 0
    THEN RInt(0)
    ELSE LET metadata == results[j].metadata
         IN  IF metadata.tradeFinancials = Null
             THEN RAdd(VestingCostsBrl(j - 1),
                       RMul(RMul(RInt(metadata.quantity.value), metadata.pricePerShareUsd.amount),
                            metadata.exchangeRates.ptaxBid))
             ELSE VestingCostsBrl(j - 1)

\* The cost bases in BRL the trades among the first j results reported.
RECURSIVE CostBasesBrl(_)
CostBasesBrl(j) ==
    IF j = 0
    THEN RInt(0)
    ELSE LET financials == results[j].metadata.tradeFinancials
         IN  IF financials = Null
             THEN CostBasesBrl(j - 1)
             ELSE RAdd(CostBasesBrl(j - 1), financials.costBasisBrl.amount)

\* C27: every trade of a run takes from totalCostBrl the cost basis it
\* reports, and after every operation the totalCostBrl left plus the cost
\* bases reported so far is the BRL cost the run started with plus the BRL
\* cost of the vestings so far.
C27_CostBrlConserved ==
    \A i \in 1..Len(positions) :
        /\ results[i].metadata.tradeFinancials # Null =>
               RSub(Running(i).totalCostBrl.amount, positions[i].totalCostBrl.amount) =
                   results[i].metadata.tradeFinancials.costBasisBrl.amount
        /\ RAdd(positions[i].totalCostBrl.amount, CostBasesBrl(i)) =
               RAdd(StartingPosition.totalCostBrl.amount, VestingCostsBrl(i))

\* C27 witness: a run from the empty position vested at two different bid
\* rates and then sold a part, across the turn of the year.
C27_Witness ==
    /\ initialPosition = Null
    /\ Len(positions) = 3
    /\ results[1].metadata.tradeFinancials = Null
    /\ results[2].metadata.tradeFinancials = Null
    /\ results[1].metadata.exchangeRates.ptaxBid # results[2].metadata.exchangeRates.ptaxBid
    /\ results[3].metadata.tradeFinancials # Null
    /\ positions[3].quantity.value > 0
    /\ results[3].metadata.tradeFinancials.costBasisBrl.amount # RInt(0)


\* ------------------------------------------------------------------------
\* The size of the cache, of every state of SpecBCBFilled

\* C28: the cache never holds more than MAX_CACHE_SIZE entries.
C28_AsStated == Len(cache) <= MAX_CACHE_SIZE


\* ------------------------------------------------------------------------
\* Properties of usePortfolio, of every step of SpecHook

\* The awaited work of run r, whose controller is aborted, settles in this step.
SettlesAborted(r) ==
    /\ controllers[r]
    /\ runs[r].pc \in {"reading", "executing"}
    /\ runs'[r] # runs[r]

\* The status, the response, the snapshots or the error of the state change
\* in this step, to the status success or error.
Publishes ==
    /\ state'.status \in {"success", "error"}
    /\ \/ state'.status # state.status
       \/ state'.response # state.response
       \/ state'.snapshots # state.snapshots
       \/ state'.error # state.error

\* C29: when the file read or the use case of a run settles whose controller
\* was aborted, by cancelProcessing or by a later processPortfolio call, the
\* status, the response, the snapshots and the error of the state stay as
\* they are; and whatever sets the status to success or error with a response
\* or an error is the settling of a run whose controller is not aborted,
\* publishing its own response or error.
C29_Step ==
    /\ \A r \in 1..MaxRuns :
           SettlesAborted(r) =>
               /\ state'.status = state.status
               /\ state'.response = state.response
               /\ state'.snapshots = state.snapshots
               /\ state'.error = state.error
               /\ runs'[r].pc \in {"executing", "dropped"}
    /\ Publishes =>
           \E r \in 1..MaxRuns :
               /\ ~controllers[r]
               /\ runs[r].pc \in {"reading", "executing"}
               /\ runs'[r].pc \in {"published", "failed"}
               /\ state'.status = "success" => state'.response = ResponseOf(r)
               /\ state'.status = "error" => state'.error = [run |-> r]

C29_AbortedRunsStaySilent == [][C29_Step]_vars

\* C29 witness: the first run was superseded by the second while it read its
\* file, went on to the use case and was dropped when that resolved; the
\* state shows the response of the second run.
C29_Witness ==
    /\ runs[1].pc = "dropped"
    /\ runs[1].params.jsonFile
    /\ controllers[1]
    /\ runs[2].pc = "published"
    /\ state.status = "success"
    /\ state.response = ResponseOf(2)
    /\ abortControllerRef = [run |-> 2]

=============================================================================
